---- MODULE Spec2Model ----
(***************************************************************************)
(* A state-machine model of the ImportSDK engine (src/unnamed/part_003):   *)
(* one engine instance, its session state, the streaming tokenizer it      *)
(* drives through pause/resume, the row buffer, the batch dispatcher with  *)
(* its bounded bursts of sink calls, and the error-pattern sampler.        *)
(*                                                                         *)
(* JavaScript runs handlers to their first suspension point without        *)
(* interleaving, so every action below is one such run: a callback from    *)
(* its entry to the first await it blocks on, or the continuation of an    *)
(* await to the next one.                                                  *)
(***************************************************************************)
EXTENDS Integers, Sequences, FiniteSets, TLC

\* ------------------------------------------------------------- bounds
\* Records the tokenizer delivers in one session, at most.
MaxRecords == 3
\* Runs (startImport calls that pass the guard) on the engine instance.
MaxSessions == 2
\* config.chunkSize ranges over 1..MaxChunkSize.
MaxChunkSize == 2
\* config.concurrency ranges over 1..MaxConcurrency.
MaxConcurrency == 2
\* sendErrorSample calls in one session, at most.
MaxSamples == 11
\* Telemetry posts that may be outstanding at once.
MaxPending == 2

VARIABLES
    config,         \* this.config: chunkSize, concurrency, waitBetweenChunks
    state,          \* this.state: isProcessing, selectedFile, mode, counters, currentCsvLine
    rowBuffer,      \* this.rowBuffer: validated records waiting for dispatch
    headersChecked, \* the closure variable of fileReader.onload
    parser,         \* the tokenizer: "none", "streaming", "paused", "ended"
    pc,             \* where the session's chain of callbacks is suspended
    calls,          \* the sink calls of the current burst (or the tail call)
    lineLog,        \* history: the line number given to each record of this session
    validIds,       \* history: the records of this session that passed validation
    sentLog,        \* history: the batches handed to the sink in this session, in order
    sessions,       \* history: number of runs started
    endedBy,        \* history: which callback finished the last run
    faultLog,       \* history: the column and parse faults logged in this session, in order
    metricsEnabled, \* config.metricsBackend.enabled
    uniqueErrors,   \* this.uniqueErrors: the keys already sampled in full
    errorPatternCounts, \* this.errorPatternCounts: key -> occurrences (0: absent)
    pendingAudit,   \* audit-log posts sent to the metrics backend and not settled
    occurrences,    \* history: sendErrorSample calls per key in this session
    fullEvents,     \* history: full first-occurrence events posted per key, this session
    repeatEvents,   \* history: 'pattern repeated' events posted per key, this session
    earlierKeys,    \* history: the keys that occurred in earlier sessions
    content,        \* the text handed to detectDelimiter
    detected,       \* what detectDelimiter returned for it ("none": not called)
    rowConfig,      \* the filters, mapping, validator and plugins, and what each does on the record
    rowResult,      \* history: what the row pipeline made of the record (outcome "none": not run)
    flow,           \* this.config.flow: forceCheck, preventStartOnErrors
    resultExport,   \* this.config.resultExport
    disabled,       \* the disabled property of the start and the check button
    selection,      \* the name of the file in state.selectedFile ("none": null)
    activeMapping,  \* this.activeMapping.name ("default": the configuration's own mapping)
    lists,          \* state.successRows, errorRows, filteredRows: whose records each holds
    runMapping,     \* history: the active mapping when the current run was started
    mappingsUsed,   \* history: the mappings transformRow used on records of the current run
    runOnSelection, \* history: the last run was started on the file as now selected
    checked,        \* history: a check run started on the file as now selected has finished
    registry,       \* ImportSDK.plugins, the static registry
    lastCall,       \* history: the last call on the registry and how it ended
    rows,           \* state.successRows, errorRows, filteredRows: the records each holds
    backend,        \* the metrics backend: "healthy", or "failing" on every call
    twin,           \* the same engine on the same inputs, constructed with telemetry disabled
    reconciled,     \* history: the batches handleBatchResult was called with in this session, in order
    csvNormalization, \* config.csvNormalization: enabled and the toggle of each pass
    csvContent,     \* the text handed to normalizeCSV
    normalized,     \* what normalizeCSV returned for it: content, delimiter, issues
    passLog,        \* history: the passes normalizeCSV ran, each with what it was given and what it left
    activePlugins,  \* this.activePlugins: the field, row and batch plugins the constructor took
    registeredAtInit, \* history: the registry as it was when the instance was constructed (<<>>: no instance)
    hookLog         \* history: the plugin hooks the instance's last operation called

engineVars == <<config, state, rowBuffer, headersChecked, parser, pc, calls,
                lineLog, validIds, sentLog, endedBy, faultLog>>

samplerVars == <<metricsEnabled, uniqueErrors, errorPatternCounts, pendingAudit,
                 occurrences, fullEvents, repeatEvents, earlierKeys>>

delimiterVars == <<content, detected>>

rowVars == <<rowConfig, rowResult>>

panelVars == <<flow, resultExport, disabled, selection, activeMapping, lists,
               runMapping, mappingsUsed, runOnSelection, checked>>

registryVars == <<registry, lastCall>>

exportVars == <<rows, backend, twin>>

orderVars == <<reconciled>>

normalizeVars == <<csvNormalization, csvContent, normalized, passLog>>

snapshotVars == <<activePlugins, registeredAtInit, hookLog>>

otherVars == <<normalizeVars, snapshotVars>>

restVars == <<exportVars, orderVars, otherVars>>

\* What the engine's handlers leave alone even when they reconcile.
idleVars == <<delimiterVars, rowVars, panelVars, registryVars, exportVars, otherVars>>

pureVars == <<delimiterVars, rowVars, panelVars, registryVars, restVars>>

vars == <<engineVars, sessions, samplerVars, pureVars>>

\* ------------------------------------------------------------- helpers
RECURSIVE SumSeq(_)
SumSeq(s) == IF s = <<>> THEN 0 ELSE Head(s) + SumSeq(Tail(s))

RECURSIVE Flatten(_)
Flatten(ss) == IF ss = <<>> THEN <<>> ELSE Head(ss) \o Flatten(Tail(ss))

Modes == {"check", "import"}

\* What the row pipeline (filterRow, transformRow, validateRow) decides for
\* one record.
Outcomes == {"filtered", "invalid", "valid"}

RECURSIVE SeqsUpTo(_, _)
SeqsUpTo(S, n) ==
    IF n = 0 THEN {<<>>}
    ELSE LET shorter == SeqsUpTo(S, n - 1)
         IN  shorter \cup {Append(s, x) : s \in {t \in shorter : Len(t) = n - 1}, x \in S}

\* ------------------------------------------------------------- error sampler
\* Error messages as sequences of words.  extractErrorPattern replaces the
\* words that match one of its patterns by the pattern's placeholder and
\* leaves the others as they are.
IdWords == {"TANK_000010", "BIN_000008"}        \* /\b[A-Z_]+_\d+\b/
QuotedWords == {"'abc'"}                         \* /'[^']+'/
NumberWords == {"12345"}                         \* /\b\d{4,}\b/

ReplaceWord(w) ==
    CASE w \in IdWords -> "{ID}"
      [] w \in QuotedWords -> "{VALUE}"
      [] w \in NumberWords -> "{NUMBER}"
      [] OTHER -> w

ExtractErrorPattern(msg) == [i \in 1..Len(msg) |-> ReplaceWord(msg[i])]

Messages ==
    {<<"Duplicate", "TANK_000010">>, <<"Duplicate", "BIN_000008">>,
     <<"Missing", "name">>}

ErrorTypes == {"validation", "client-validation"}

\* errorKey = `${errorType}:${errorPattern}`
ErrorKey(errorType, errorPattern) == <<errorType, errorPattern>>

AllKeys == {ErrorKey(t, ExtractErrorPattern(m)) : t \in ErrorTypes, m \in Messages}

NoCounts == [k \in AllKeys |-> 0]

\* A 'pattern repeated' event is posted when the count is a multiple of this.
RepeatEvery == 10

\* ResetUniqueErrors with the set kept from the run before.
KeepUniqueErrors(u) == u

\* resetMetrics: the sampler's two collections are replaced by empty ones.
ResetUniqueErrors(u) == {}

ResetErrorPatternCounts(c) == NoCounts

\* The test that decides between a full sample and a repeat.
FirstOccurrence(u, errorKey) == errorKey \notin u

\* The test that decides whether a repeat is posted.
RepeatDue(currentCount) == currentCount % RepeatEvery = 0

\* ------------------------------------------------------------- constructor
Configs ==
    [chunkSize : 1..MaxChunkSize,
     concurrency : 1..MaxConcurrency,
     waitBetweenChunks : {0, 1}]

InitialState ==
    [isProcessing |-> FALSE, selectedFile |-> FALSE, mode |-> "import",
     successCount |-> 0, errorCount |-> 0, totalCount |-> 0, filteredCount |-> 0,
     currentCsvLine |-> 2]

EngineInit ==
    /\ state = InitialState
    /\ rowBuffer = <<>>
    /\ headersChecked = FALSE
    /\ parser = "none"
    /\ pc = "idle"
    /\ calls = <<>>
    /\ lineLog = <<>>
    /\ validIds = {}
    /\ sentLog = <<>>
    /\ endedBy = "none"
    /\ faultLog = <<>>

\* No text under analysis: the pure helpers are not in use.
DelimiterIdle ==
    /\ content = <<>>
    /\ detected = "none"

\* No record under way in the row pipeline.
NoResult == [outcome |-> "none"]

RowIdle ==
    /\ rowConfig = "none"
    /\ rowResult = NoResult

\* The panel as the constructor leaves it: no flow control asked for, no
\* file selected, both buttons disabled as rendered.
DefaultFlow == [forceCheck |-> FALSE, preventStartOnErrors |-> TRUE]

\* A list of state is told by whose records it holds: those of the current
\* run ("current"), those of runs before it ("earlier"), both or none.
NoLists == [successRows |-> {}, errorRows |-> {}, filteredRows |-> {}]

PanelIdle ==
    /\ flow = DefaultFlow
    /\ resultExport = {}
    /\ disabled = [startBtn |-> TRUE, checkBtn |-> TRUE]
    /\ selection = "none"
    /\ activeMapping = "default"
    /\ lists = NoLists
    /\ runMapping = "default"
    /\ mappingsUsed = {}
    /\ runOnSelection = FALSE
    /\ checked = FALSE

\* No plugin registered, no call made on the registry.
NoPlugin == [name |-> 0, type |-> "none", transform |-> "absent"]

NoCall ==
    [op |-> "none", plugin |-> NoPlugin, name |-> 0, outcome |-> "none",
     afterRemoval |-> 0]

RegistryIdle ==
    /\ registry = <<>>
    /\ lastCall = NoCall

\* No record collected, no twin engine.
NoRows == [successRows |-> <<>>, errorRows |-> <<>>, filteredRows |-> <<>>]

ExportIdle ==
    /\ rows = NoRows
    /\ backend = "healthy"
    /\ twin = "none"

\* config.csvNormalization with every toggle at its default.
DefaultNormalization ==
    [enabled |-> TRUE, trimBOM |-> TRUE, autoDetectDelimiter |-> TRUE,
     removeUnicodeJunk |-> TRUE, normalizeLineEndings |-> TRUE,
     stripEmptyLines |-> TRUE, sanitizeHeaders |-> TRUE]

\* { content, delimiter, issues } before normalizeCSV was called.
NotNormalized == [content |-> <<>>, delimiter |-> "none", issues |-> <<>>]

NormalizeIdle ==
    /\ csvNormalization = DefaultNormalization
    /\ csvContent = <<>>
    /\ normalized = NotNormalized
    /\ passLog = <<>>

NoActivePlugins == [field |-> <<>>, row |-> <<>>, batch |-> <<>>]

NoHooks == [hook |-> "none", names |-> <<>>, all |-> TRUE, live |-> <<>>]

SnapshotIdle ==
    /\ activePlugins = NoActivePlugins
    /\ registeredAtInit = <<>>
    /\ hookLog = NoHooks

OtherIdle == NormalizeIdle /\ SnapshotIdle

RestIdle == ExportIdle /\ reconciled = <<>> /\ OtherIdle

PureIdle == DelimiterIdle /\ RowIdle /\ PanelIdle /\ RegistryIdle /\ RestIdle

\* The engine as constructed, with the metrics backend left disabled (the
\* default): sendErrorSample returns at once.
Init ==
    /\ config \in Configs
    /\ EngineInit
    /\ sessions = 0
    /\ metricsEnabled = FALSE
    /\ uniqueErrors = {}
    /\ errorPatternCounts = NoCounts
    /\ pendingAudit = 0
    /\ occurrences = NoCounts
    /\ fullEvents = NoCounts
    /\ repeatEvents = NoCounts
    /\ earlierKeys = {}
    /\ PureIdle

\* ------------------------------------------------------------- the sink
\* What one call of the configured send handler can do with a batch of n
\* records: throw an Error, reject with no reason (null or undefined, as a
\* bare reject() does), resolve with something that is not an object, or
\* resolve with an object: one that splits n into successes and errors, one
\* that reports nothing, one whose success is not a number (its errors list
\* holding all n), or one whose errors is not a list (its success being n).
None == [kind |-> "none", successIsNumber |-> FALSE, success |-> 0,
         errorsIsArray |-> FALSE, errors |-> 0]

Object(s, e) == [kind |-> "object", successIsNumber |-> TRUE, success |-> s,
                 errorsIsArray |-> TRUE, errors |-> e]

SinkOutcomes(n) ==
    {Object(s, n - s) : s \in 0..n}
    \cup {Object(0, 0),
          [Object(0, n) EXCEPT !.successIsNumber = FALSE],
          [Object(n, 0) EXCEPT !.errorsIsArray = FALSE]}
    \cup {[None EXCEPT !.kind = k] : k \in {"nonObject", "throwError", "rejectNoReason"}}

Thrown(o) == o.kind \in {"throwError", "rejectNoReason"}

Malformed(o) ==
    \/ o.kind = "nonObject"
    \/ o.kind = "object" /\ (~o.successIsNumber \/ ~o.errorsIsArray)

\* sendBatch from the point its await of the handler settles, with no batch
\* plugins registered.  result is what it returns; errorCountAdded is what
\* its outer catch block adds to state.errorCount before returning.
\* A rejection without a reason makes the inner catch block read
\* handlerError.message of null/undefined, which throws a TypeError out of
\* the inner catch and into the outer one.
SendBatch(batch, o) ==
    CASE o.kind = "throwError" ->
            [result |-> [success |-> 0, errors |-> Len(batch)], errorCountAdded |-> 0]
      [] o.kind = "rejectNoReason" ->
            [result |-> [success |-> 0, errors |-> Len(batch)],
             errorCountAdded |-> Len(batch)]
      [] o.kind = "nonObject" ->
            [result |-> [success |-> 0, errors |-> 0], errorCountAdded |-> 0]
      [] OTHER ->
            [result |-> [success |-> IF o.successIsNumber THEN o.success ELSE 0,
                         errors |-> IF o.errorsIsArray THEN o.errors ELSE 0],
             errorCountAdded |-> 0]

\* HandleBatchResult with the errors left out of totalCount.
HandleBatchResultTotalsSuccesses(st, result) ==
    [st EXCEPT !.successCount = @ + result.success,
               !.errorCount = @ + result.errors,
               !.totalCount = @ + result.success]

\* handleBatchResult: the counters after one batch result is reconciled.
HandleBatchResult(st, result) ==
    [st EXCEPT !.successCount = @ + result.success,
               !.errorCount = @ + result.errors,
               !.totalCount = @ + (result.success + result.errors)]

\* ReconcileOrder from the last batch of the burst to the first.
ReconcileOrderReversed(cs) == [i \in 1..Len(cs) |-> cs[Len(cs) + 1 - i].batch]

\* The batches in the order results.forEach hands them to handleBatchResult:
\* that of the results array of Promise.all, which is that of batchesToSend.
ReconcileOrder(cs) == [i \in 1..Len(cs) |-> cs[i].batch]

RECURSIVE HandleAll(_, _)
\* results.forEach(({result, batch}) => this.handleBatchResult(result, batch))
HandleAll(st, cs) ==
    IF cs = <<>> THEN st
    ELSE HandleAll(HandleBatchResult(st, Head(cs).result), Tail(cs))

\* finishImport: the session is over.
FinishImport(st) == [st EXCEPT !.isProcessing = FALSE]

\* ------------------------------------------------------------- the row loop
\* ProcessRow with the mode test lost: a valid record is buffered in check
\* mode too.
ProcessRowBuffersAlways(ctx, o) ==
    LET csvLineNumber == ctx.state.currentCsvLine
        st == [ctx.state EXCEPT !.currentCsvLine = @ + 1]
        id == Len(ctx.lineLog) + 1
        c == [ctx EXCEPT !.state = st, !.lineLog = Append(@, csvLineNumber),
                         !.validIds = IF o = "valid" THEN @ \cup {id} ELSE @]
    IN  CASE o = "filtered" ->
                [c EXCEPT !.state.filteredCount = @ + 1]
          [] o = "valid" ->
                [c EXCEPT !.rowBuffer = Append(@, [id |-> id, line |-> csvLineNumber])]
          [] OTHER ->
                [c EXCEPT !.state.errorCount = @ + 1, !.state.totalCount = @ + 1]

\* ProcessRow with unshift for push: a valid record goes to the front of
\* the buffer.
ProcessRowUnshifts(ctx, o) ==
    LET csvLineNumber == ctx.state.currentCsvLine
        st == [ctx.state EXCEPT !.currentCsvLine = @ + 1]
        id == Len(ctx.lineLog) + 1
        c == [ctx EXCEPT !.state = st, !.lineLog = Append(@, csvLineNumber),
                         !.validIds = IF o = "valid" THEN @ \cup {id} ELSE @]
    IN  CASE o = "filtered" ->
                [c EXCEPT !.state.filteredCount = @ + 1]
          [] o = "valid" /\ st.mode = "import" ->
                [c EXCEPT !.rowBuffer = <<[id |-> id, line |-> csvLineNumber]>> \o @]
          [] o = "valid" ->
                [c EXCEPT !.state.successCount = @ + 1, !.state.totalCount = @ + 1]
          [] OTHER ->
                [c EXCEPT !.state.errorCount = @ + 1, !.state.totalCount = @ + 1]

\* One iteration of the for loop of processRows on a record whose pipeline
\* outcome is o: the line cursor advances first, whatever the outcome.
ProcessRow(ctx, o) ==
    LET csvLineNumber == ctx.state.currentCsvLine
        st == [ctx.state EXCEPT !.currentCsvLine = @ + 1]
        id == Len(ctx.lineLog) + 1
        c == [ctx EXCEPT !.state = st, !.lineLog = Append(@, csvLineNumber),
                         !.validIds = IF o = "valid" THEN @ \cup {id} ELSE @]
    IN  CASE o = "filtered" ->
                [c EXCEPT !.state.filteredCount = @ + 1]
          [] o = "valid" /\ st.mode = "import" ->
                [c EXCEPT !.rowBuffer = Append(@, [id |-> id, line |-> csvLineNumber])]
          [] o = "valid" ->
                [c EXCEPT !.state.successCount = @ + 1, !.state.totalCount = @ + 1]
          [] OTHER ->
                [c EXCEPT !.state.errorCount = @ + 1, !.state.totalCount = @ + 1]

RECURSIVE ProcessRowLoop(_, _)
ProcessRowLoop(ctx, outs) ==
    IF outs = <<>> THEN ctx
    ELSE ProcessRowLoop(ProcessRow(ctx, Head(outs)), Tail(outs))

\* ------------------------------------------------------------- the drain loop
\* HasFullBatch with > for >=: a buffer of exactly chunkSize is left alone.
HasMoreThanFullBatch(buf, chunkSize) == Len(buf) > chunkSize

\* The condition of the while loop and of the if inside the for loop.
HasFullBatch(buf, chunkSize) == Len(buf) >= chunkSize

RECURSIVE PrepareBatchesOneTooMany(_, _, _, _)
\* PrepareBatches with i <= concurrency for i < concurrency.
PrepareBatchesOneTooMany(buf, i, chunkSize, concurrency) ==
    IF i <= concurrency /\ Len(buf) >= chunkSize
    THEN LET more == PrepareBatchesOneTooMany(SubSeq(buf, chunkSize + 1, Len(buf)),
                                              i + 1, chunkSize, concurrency)
         IN  [batches |-> <<SubSeq(buf, 1, chunkSize)>> \o more.batches,
              rest |-> more.rest]
    ELSE [batches |-> <<>>, rest |-> buf]

RECURSIVE PrepareBatches(_, _, _, _)
\* for (let i = 0; i < concurrency; i++) { splice a full batch or break }
PrepareBatches(buf, i, chunkSize, concurrency) ==
    IF i < concurrency /\ HasFullBatch(buf, chunkSize)
    THEN LET more == PrepareBatches(SubSeq(buf, chunkSize + 1, Len(buf)), i + 1,
                                    chunkSize, concurrency)
         IN  [batches |-> <<SubSeq(buf, 1, chunkSize)>> \o more.batches,
              rest |-> more.rest]
    ELSE [batches |-> <<>>, rest |-> buf]

NewCall(batch) == [batch |-> batch, st |-> "pending", outcome |-> None,
                   result |-> [success |-> 0, errors |-> 0]]

AllSettled(cs) == \A i \in 1..Len(cs) : cs[i].st = "settled"

InFlight(cs) == Cardinality({i \in 1..Len(cs) : cs[i].st = "pending"})

\* Drain with the condition of the while loop never true: processRows
\* returns with the buffer as the row loop left it.
DrainNever(buf) ==
    /\ rowBuffer' = buf
    /\ calls' = <<>>
    /\ sentLog' = sentLog
    /\ pc' = "resuming"

\* One pass of the while loop of processRows up to its await on Promise.all,
\* or, with no full batch left, the return of processRows.
Drain(buf) ==
    IF HasFullBatch(buf, config.chunkSize)
    THEN LET p == PrepareBatches(buf, 0, config.chunkSize, config.concurrency)
         IN  /\ rowBuffer' = p.rest
             /\ calls' = [i \in 1..Len(p.batches) |-> NewCall(p.batches[i])]
             /\ sentLog' = sentLog \o
                    [i \in 1..Len(p.batches) |-> [batch |-> p.batches[i], tail |-> FALSE]]
             /\ pc' = "burst"
    ELSE /\ rowBuffer' = buf
         /\ calls' = <<>>
         /\ sentLog' = sentLog
         /\ pc' = "resuming"

\* ------------------------------------------------------------- actions
\* handleFileSelect with a .csv file.
HandleFileSelect ==
    /\ state' = [state EXCEPT !.selectedFile = TRUE]
    /\ UNCHANGED <<samplerVars, pureVars>>
    /\ UNCHANGED <<config, rowBuffer, headersChecked, parser, pc, calls,
                   lineLog, validIds, sentLog, sessions, endedBy, faultLog>>

\* handleFileRemove.
HandleFileRemove ==
    /\ state.selectedFile
    /\ state' = [state EXCEPT !.selectedFile = FALSE]
    /\ UNCHANGED <<samplerVars, pureVars>>
    /\ UNCHANGED <<config, rowBuffer, headersChecked, parser, pc, calls,
                   lineLog, validIds, sentLog, sessions, endedBy, faultLog>>

\* ResetSession without the reset of the line cursor.
ResetSessionKeepsLine(st, mode) ==
    [st EXCEPT !.isProcessing = TRUE, !.mode = mode,
               !.successCount = 0, !.errorCount = 0, !.totalCount = 0,
               !.filteredCount = 0]

\* The fields startImport resets before it reads the file.
ResetSession(st, mode) ==
    [st EXCEPT !.isProcessing = TRUE, !.mode = mode,
               !.successCount = 0, !.errorCount = 0, !.totalCount = 0,
               !.filteredCount = 0, !.currentCsvLine = 2]

\* MayStart without the test of isProcessing.
MayStartWhileProcessing(st) == st.selectedFile

\* The guard of startImport: it returns at once unless a file is selected
\* and no session is processing.
MayStart(st) == st.selectedFile /\ ~st.isProcessing

\* startImport(mode) up to fileReader.readAsText.
StartImport(mode) ==
    /\ MayStart(state)
    /\ sessions < MaxSessions
    /\ state' = ResetSession(state, mode)
    /\ rowBuffer' = <<>>
    /\ pc' = "reading"
    /\ parser' = "none"
    /\ lineLog' = <<>>
    /\ validIds' = {}
    /\ sentLog' = <<>>
    /\ sessions' = sessions + 1
    /\ endedBy' = "none"
    /\ faultLog' = <<>>
    /\ uniqueErrors' = ResetUniqueErrors(uniqueErrors)
    /\ errorPatternCounts' = ResetErrorPatternCounts(errorPatternCounts)
    /\ reconciled' = <<>>
    /\ UNCHANGED <<metricsEnabled, pendingAudit, occurrences, fullEvents,
                   repeatEvents, earlierKeys, idleVars>>
    /\ UNCHANGED <<config, headersChecked, calls>>

\* fileReader.onload: the content is normalized and handed to the tokenizer.
FileLoaded ==
    /\ pc = "reading"
    /\ headersChecked' = FALSE
    /\ parser' = "streaming"
    /\ pc' = "parsing"
    /\ UNCHANGED <<samplerVars, pureVars>>
    /\ UNCHANGED <<config, state, rowBuffer, calls, lineLog, validIds, sentLog, sessions,
                   endedBy, faultLog>>

\* fileReader.onerror.
FileReadFailed ==
    /\ pc = "reading"
    /\ state' = FinishImport(state)
    /\ pc' = "idle"
    /\ endedBy' = "readError"
    /\ UNCHANGED <<samplerVars, pureVars>>
    /\ UNCHANGED <<config, rowBuffer, headersChecked, parser, calls, lineLog, validIds,
                   sentLog, sessions, faultLog>>

\* PauseParser with the call of parser.pause() left out.
PauseParserForgotten(p) == p

\* parser.pause() and parser.resume() as the chunk callback calls them.
PauseParser(p) == "paused"

ResumeParser(p) == "streaming"

\* CheckColumns counting every missing column (two of them) instead of the fault.
CheckColumnsPerColumn(st, missingRequired, unknownFound) ==
    [st EXCEPT !.errorCount = @ + (IF missingRequired THEN 2 ELSE 0)
                                + (IF unknownFound THEN 1 ELSE 0)]

\* The column checks of the first chunk: each fault found adds one to errorCount.
CheckColumns(st, missingRequired, unknownFound) ==
    [st EXCEPT !.errorCount = @ + (IF missingRequired THEN 1 ELSE 0)
                                + (IF unknownFound THEN 1 ELSE 0)]

\* The chunks the tokenizer can deliver, as the pipeline outcomes of their
\* records.
Chunks == SeqsUpTo(Outcomes, MaxRecords)

\* The log entries of the column checks: one for all the missing required
\* columns, then one for all the unknown ones.
ColumnFaults(missingRequired, unknownFound) ==
    (IF missingRequired THEN <<"missingColumns">> ELSE <<>>)
    \o (IF unknownFound THEN <<"unknownColumns">> ELSE <<>>)

\* The chunk callback from its entry, through parser.pause() and the
\* synchronous part of processRows (the row loop and, in import mode, the
\* first pass of the drain loop), to its first suspension point.  The
\* tokenizer calls it only while it is not paused.
ChunkDelivered(outs, missingRequired, unknownFound) ==
    /\ parser = "streaming"
    /\ Len(lineLog) + Len(outs) <= MaxRecords
    /\ headersChecked => ~missingRequired /\ ~unknownFound
    /\ LET st0 == IF headersChecked THEN state
                  ELSE CheckColumns(state, missingRequired, unknownFound)
           ctx == ProcessRowLoop([state |-> st0, rowBuffer |-> rowBuffer,
                                  lineLog |-> lineLog, validIds |-> validIds], outs)
       IN  /\ headersChecked' = TRUE
           /\ faultLog' = IF headersChecked THEN faultLog
                           ELSE faultLog \o ColumnFaults(missingRequired, unknownFound)
           /\ parser' = PauseParser(parser)
           /\ state' = ctx.state
           /\ lineLog' = ctx.lineLog
           /\ validIds' = ctx.validIds
           /\ IF ctx.state.mode = "check"
              THEN /\ rowBuffer' = ctx.rowBuffer
                   /\ calls' = <<>>
                   /\ sentLog' = sentLog
                   /\ pc' = "resuming"
              ELSE Drain(ctx.rowBuffer)
    /\ UNCHANGED <<samplerVars, pureVars>>
    /\ UNCHANGED <<config, sessions, endedBy>>

\* The send handler's promise for call i of the burst (or for the tail call)
\* settles with outcome o, and sendBatch runs on to its return.
SinkSettles(i, o) ==
    /\ pc \in {"burst", "tail"}
    /\ i \in 1..Len(calls)
    /\ calls[i].st = "pending"
    /\ o \in SinkOutcomes(Len(calls[i].batch))
    /\ LET r == SendBatch(calls[i].batch, o)
       IN  /\ calls' = [calls EXCEPT ![i] = [@ EXCEPT !.st = "settled", !.outcome = o,
                                                      !.result = r.result]]
           /\ state' = [state EXCEPT !.errorCount = @ + r.errorCountAdded]
    /\ UNCHANGED <<samplerVars, pureVars>>
    /\ UNCHANGED <<config, rowBuffer, headersChecked, parser, pc, lineLog, validIds,
                   sentLog, sessions, endedBy, faultLog>>

\* Promise.all of the burst has resolved: every result is reconciled, in
\* order; then the inter-burst delay, if configured, or the next pass.
BurstReconciled ==
    /\ pc = "burst"
    /\ AllSettled(calls)
    /\ state' = HandleAll(state, calls)
    /\ reconciled' = reconciled \o ReconcileOrder(calls)
    /\ IF config.waitBetweenChunks > 0
       THEN /\ pc' = "delay"
            /\ calls' = <<>>
            /\ UNCHANGED <<rowBuffer, sentLog>>
       ELSE Drain(rowBuffer)
    /\ UNCHANGED <<samplerVars, idleVars>>
    /\ UNCHANGED <<config, headersChecked, parser, lineLog, validIds, sessions, endedBy,
                   faultLog>>

\* The setTimeout of waitBetweenChunks fires: the while loop goes on.
DelayElapsed ==
    /\ pc = "delay"
    /\ Drain(rowBuffer)
    /\ UNCHANGED <<samplerVars, pureVars>>
    /\ UNCHANGED <<config, state, headersChecked, parser, lineLog, validIds, sessions,
                   endedBy, faultLog>>

\* processRows has returned: the chunk callback resumes the tokenizer.
ChunkDone ==
    /\ pc = "resuming"
    /\ parser' = ResumeParser(parser)
    /\ pc' = "parsing"
    /\ UNCHANGED <<samplerVars, pureVars>>
    /\ UNCHANGED <<config, state, rowBuffer, headersChecked, calls, lineLog, validIds,
                   sentLog, sessions, endedBy, faultLog>>

\* FlushesTail with the mode test inverted.
FlushesTailInCheckMode(buf, mode) == Len(buf) > 0 /\ mode = "check"

\* Whether the complete callback flushes the buffer as a last batch.
FlushesTail(buf, mode) == Len(buf) > 0 /\ mode = "import"

\* The complete callback up to its await of the tail's sendBatch, or, with
\* nothing to flush, through finishImport.
ParseComplete ==
    /\ parser = "streaming"
    /\ parser' = "ended"
    /\ IF FlushesTail(rowBuffer, state.mode)
       THEN /\ calls' = <<NewCall(rowBuffer)>>
            /\ sentLog' = Append(sentLog, [batch |-> rowBuffer, tail |-> TRUE])
            /\ pc' = "tail"
            /\ UNCHANGED <<state, endedBy>>
       ELSE /\ state' = FinishImport(state)
            /\ pc' = "idle"
            /\ endedBy' = "complete"
            /\ UNCHANGED <<calls, sentLog>>
    /\ UNCHANGED <<samplerVars, pureVars>>
    /\ UNCHANGED <<config, rowBuffer, headersChecked, lineLog, validIds, sessions, faultLog>>

\* The tail's sendBatch has returned: its result is reconciled, the buffer
\* is emptied and the session is finished.
TailReconciled ==
    /\ pc = "tail"
    /\ AllSettled(calls)
    /\ state' = FinishImport(HandleAll(state, calls))
    /\ reconciled' = reconciled \o ReconcileOrder(calls)
    /\ rowBuffer' = <<>>
    /\ calls' = <<>>
    /\ pc' = "idle"
    /\ endedBy' = "complete"
    /\ UNCHANGED <<samplerVars, idleVars>>
    /\ UNCHANGED <<config, headersChecked, parser, lineLog, validIds, sentLog, sessions,
                   faultLog>>

\* The error callback of the tokenizer: the fault is logged and the session
\* is finished.
ParseError ==
    /\ parser = "streaming"
    /\ parser' = "ended"
    /\ state' = FinishImport(state)
    /\ pc' = "idle"
    /\ endedBy' = "error"
    /\ faultLog' = Append(faultLog, "parsingError")
    /\ UNCHANGED <<samplerVars, pureVars>>
    /\ UNCHANGED <<config, rowBuffer, headersChecked, calls, lineLog, validIds, sentLog, sessions>>

Next ==
    \/ HandleFileSelect
    \/ HandleFileRemove
    \/ \E mode \in Modes : StartImport(mode)
    \/ FileLoaded
    \/ FileReadFailed
    \/ \E outs \in Chunks, m \in BOOLEAN, u \in BOOLEAN :
           ChunkDelivered(outs, m, u)
    \/ \E i \in 1..MaxConcurrency, n \in 1..MaxChunkSize :
           \E o \in SinkOutcomes(n) : SinkSettles(i, o)
    \/ BurstReconciled
    \/ DelayElapsed
    \/ ChunkDone
    \/ ParseComplete
    \/ TailReconciled
    \/ ParseError

Spec == Init /\ [][Next]_vars

\* ------------------------------------------------------------- sessions with a sink that keeps its contract
\* The sessions of Spec in which every call of the send handler either
\* throws or returns a well-formed result that accounts for every record of
\* its batch: success + errors.length is the batch length.
KeepsContract(call) ==
    /\ ~Malformed(call.outcome)
    /\ Thrown(call.outcome)
           \/ call.outcome.success + call.outcome.errors = Len(call.batch)

ContractNext ==
    /\ Next
    /\ \A i \in 1..Len(calls') : calls'[i].st = "settled" => KeepsContract(calls'[i])

ContractSpec == Init /\ [][ContractNext]_vars

\* ------------------------------------------------------------- sessions under faults
\* The chunk callback on a chunk one of whose records makes a configured
\* filter function, transformer or validator rule throw: filterRow,
\* transformRow and validateRow call these outside any try, and processRows
\* has none either, so the fault leaves the row loop after the records
\* before it (outs) were handled and the line cursor was advanced for the
\* faulty one.  The promise of processRows rejects: the drain loop is not
\* entered and the chunk callback never reaches parser.resume().
ChunkFaulted(outs, missingRequired, unknownFound) ==
    /\ parser = "streaming"
    /\ Len(lineLog) + Len(outs) + 1 <= MaxRecords
    /\ headersChecked => ~missingRequired /\ ~unknownFound
    /\ LET st0 == IF headersChecked THEN state
                  ELSE CheckColumns(state, missingRequired, unknownFound)
           ctx == ProcessRowLoop([state |-> st0, rowBuffer |-> rowBuffer,
                                  lineLog |-> lineLog, validIds |-> validIds], outs)
       IN  /\ headersChecked' = TRUE
           /\ faultLog' = IF headersChecked THEN faultLog
                           ELSE faultLog \o ColumnFaults(missingRequired, unknownFound)
           /\ parser' = PauseParser(parser)
           /\ state' = [ctx.state EXCEPT !.currentCsvLine = @ + 1]
           /\ lineLog' = Append(ctx.lineLog, ctx.state.currentCsvLine)
           /\ validIds' = ctx.validIds
           /\ rowBuffer' = ctx.rowBuffer
           /\ pc' = "aborted"
    /\ UNCHANGED <<samplerVars, pureVars>>
    /\ UNCHANGED <<config, calls, sentLog, sessions, endedBy>>

FaultNext ==
    \/ Next
    \/ \E outs \in Chunks, m \in BOOLEAN, u \in BOOLEAN :
           ChunkFaulted(outs, m, u)

\* What the environment guarantees: the file reader calls onload or onerror;
\* the tokenizer, whenever it is allowed to run, ends up signalling
\* end-of-stream or an error; every sink call settles; timers fire and
\* settled promises are continued.
Fairness ==
    /\ WF_vars(FileLoaded \/ FileReadFailed)
    /\ SF_vars(ParseComplete \/ ParseError)
    /\ WF_vars(\E i \in 1..MaxConcurrency, n \in 1..MaxChunkSize :
                   \E o \in SinkOutcomes(n) : SinkSettles(i, o))
    /\ WF_vars(BurstReconciled)
    /\ WF_vars(DelayElapsed)
    /\ WF_vars(ChunkDone)
    /\ WF_vars(TailReconciled)

FairSpec == Init /\ [][FaultNext]_vars /\ Fairness

\* ------------------------------------------------------------- the panel
\* The engine with its panel: the file selection, the two buttons, the
\* active mapping and the terminal classification lists.  chunkSize is
\* larger than any file here, so the drain loop of processRows never finds
\* a full batch and returns without suspending, and the valid records of an
\* import leave in the tail call of the complete callback.  A run is started
\* by a click on one of the buttons.
MaxPanelRecords == 2

Files == {"tanks.csv", "bins.csv"}

\* selectFileMapping with fileMappings: [{ pattern: 'tanks', name: 'Tanks' }]
SelectFileMapping(filename) == IF filename = "tanks.csv" THEN "Tanks" ELSE "default"

Flows == [forceCheck : BOOLEAN, preventStartOnErrors : BOOLEAN]

\* resultExport: ['errors', 'success']
ResultExport == {"errors", "success"}

PanelInit ==
    /\ config = [chunkSize |-> MaxPanelRecords + 1, concurrency |-> 1,
                 waitBetweenChunks |-> 0]
    /\ EngineInit
    /\ sessions = 0
    /\ metricsEnabled = FALSE
    /\ uniqueErrors = {}
    /\ errorPatternCounts = NoCounts
    /\ pendingAudit = 0
    /\ occurrences = NoCounts
    /\ fullEvents = NoCounts
    /\ repeatEvents = NoCounts
    /\ earlierKeys = {}
    /\ DelimiterIdle /\ RowIdle /\ RegistryIdle /\ RestIdle
    /\ flow \in Flows
    /\ resultExport = ResultExport
    /\ disabled = [startBtn |-> TRUE, checkBtn |-> TRUE]
    /\ selection = "none"
    /\ activeMapping = "default"
    /\ lists = NoLists
    /\ runMapping = "default"
    /\ mappingsUsed = {}
    /\ runOnSelection = FALSE
    /\ checked = FALSE

\* What the panel's handlers never touch.
PanelFrame ==
    UNCHANGED <<config, flow, resultExport, sentLog, faultLog, samplerVars,
                delimiterVars, rowVars, registryVars, restVars>>

\* handleFileSelect(file) with a .csv file: the mapping is chosen by the
\* file's name, and the buttons are set whether or not a run is processing.
PanelFileSelect(file) ==
    /\ activeMapping' = SelectFileMapping(file)
    /\ state' = [state EXCEPT !.selectedFile = TRUE]
    /\ selection' = file
    /\ disabled' = [startBtn |-> flow.forceCheck, checkBtn |-> FALSE]
    /\ runOnSelection' = FALSE
    /\ checked' = FALSE
    /\ PanelFrame
    /\ UNCHANGED <<rowBuffer, headersChecked, parser, pc, calls, lineLog, validIds,
                   sessions, endedBy, lists, runMapping, mappingsUsed>>

\* handleFileRemove, by the remove button shown with a selected file.
PanelFileRemove ==
    /\ selection # "none"
    /\ state' = [state EXCEPT !.selectedFile = FALSE]
    /\ selection' = "none"
    /\ disabled' = [startBtn |-> TRUE, checkBtn |-> TRUE]
    /\ runOnSelection' = FALSE
    /\ checked' = FALSE
    /\ PanelFrame
    /\ UNCHANGED <<rowBuffer, headersChecked, parser, pc, calls, lineLog, validIds,
                   sessions, endedBy, lists, runMapping, mappingsUsed, activeMapping>>

\* startImport leaves state.successRows, errorRows and filteredRows as they
\* are: what they hold is, from now on, of an earlier run.
KeepLists(ls) ==
    [l \in DOMAIN ls |-> IF ls[l] = {} THEN {} ELSE {"earlier"}]

ButtonOf(mode) == IF mode = "check" THEN "checkBtn" ELSE "startBtn"

\* A click on the start or the check button: startImport(mode) up to
\* fileReader.readAsText.  The lists of state are not among what it resets.
PanelStart(mode) ==
    /\ ~disabled[ButtonOf(mode)]
    /\ MayStart(state)
    /\ sessions < MaxSessions
    /\ state' = ResetSession(state, mode)
    /\ rowBuffer' = <<>>
    /\ disabled' = [startBtn |-> TRUE, checkBtn |-> TRUE]
    /\ pc' = "reading"
    /\ parser' = "none"
    /\ lineLog' = <<>>
    /\ validIds' = {}
    /\ sessions' = sessions + 1
    /\ endedBy' = "none"
    /\ runMapping' = activeMapping
    /\ mappingsUsed' = {}
    /\ runOnSelection' = TRUE
    /\ PanelFrame
    /\ lists' = KeepLists(lists)
    /\ UNCHANGED <<headersChecked, calls, selection, activeMapping, checked>>

\* The buttons as finishImport leaves them.
FinishControlsIgnoresErrors(fl, st) == [startBtn |-> FALSE, checkBtn |-> FALSE]

FinishControls(fl, st) ==
    [startBtn |-> st.mode = "check" /\ fl.preventStartOnErrors /\ st.errorCount > 0,
     checkBtn |-> FALSE]

\* finishImport on the session state st, called by the callback by.
PanelFinish(st, by) ==
    /\ state' = FinishImport(st)
    /\ disabled' = FinishControls(flow, st)
    /\ pc' = "idle"
    /\ endedBy' = by
    /\ checked' = (checked \/ (st.mode = "check" /\ runOnSelection))

PanelFileLoaded ==
    /\ pc = "reading"
    /\ headersChecked' = FALSE
    /\ parser' = "streaming"
    /\ pc' = "parsing"
    /\ PanelFrame
    /\ UNCHANGED <<state, rowBuffer, calls, lineLog, validIds, sessions, endedBy, disabled,
                   selection, activeMapping, lists, runMapping, mappingsUsed, runOnSelection,
                   checked>>

PanelFileReadFailed ==
    /\ pc = "reading"
    /\ PanelFinish(state, "readError")
    /\ PanelFrame
    /\ UNCHANGED <<rowBuffer, headersChecked, parser, calls, lineLog, validIds, sessions,
                   selection, activeMapping, lists, runMapping, mappingsUsed, runOnSelection>>

Has(outs, o) == \E i \in 1..Len(outs) : outs[i] = o

\* The pushes of the row loop on the lists: a filtered record always, a
\* valid one in check mode, an invalid one if resultExport includes 'errors'.
PushRows(ls, outs, mode) ==
    [successRows |-> ls.successRows
                     \cup (IF mode = "check" /\ Has(outs, "valid") THEN {"current"} ELSE {}),
     errorRows |-> ls.errorRows
                   \cup (IF "errors" \in resultExport /\ Has(outs, "invalid")
                         THEN {"current"} ELSE {}),
     filteredRows |-> ls.filteredRows
                      \cup (IF Has(outs, "filtered") THEN {"current"} ELSE {})]

\* The pushes of handleBatchResult.
PushBatch(ls, result) ==
    [ls EXCEPT !.successRows =
                   @ \cup (IF "success" \in resultExport /\ result.success > 0
                           THEN {"current"} ELSE {}),
               !.errorRows =
                   @ \cup (IF "errors" \in resultExport /\ result.errors > 0
                           THEN {"current"} ELSE {})]

\* The chunk callback, through the row loop of processRows to
\* parser.resume(): transformRow reads this.activeMapping on every record
\* that passed the filters.
PanelChunk(outs) ==
    /\ parser = "streaming"
    /\ outs # <<>>
    /\ Len(lineLog) + Len(outs) <= MaxPanelRecords
    /\ LET ctx == ProcessRowLoop([state |-> state, rowBuffer |-> rowBuffer,
                                  lineLog |-> lineLog, validIds |-> validIds], outs)
       IN  /\ state' = ctx.state
           /\ rowBuffer' = ctx.rowBuffer
           /\ lineLog' = ctx.lineLog
           /\ validIds' = ctx.validIds
    /\ headersChecked' = TRUE
    /\ lists' = PushRows(lists, outs, state.mode)
    /\ mappingsUsed' = mappingsUsed
            \cup (IF Has(outs, "valid") \/ Has(outs, "invalid") THEN {activeMapping} ELSE {})
    /\ PanelFrame
    /\ UNCHANGED <<parser, pc, calls, sessions, endedBy, disabled, selection, activeMapping,
                   runMapping, runOnSelection, checked>>

\* The complete callback up to its await of the tail's sendBatch, or
\* through finishImport.
PanelComplete ==
    /\ parser = "streaming"
    /\ parser' = "ended"
    /\ IF FlushesTail(rowBuffer, state.mode)
       THEN /\ calls' = <<NewCall(rowBuffer)>>
            /\ pc' = "tail"
            /\ UNCHANGED <<state, endedBy, disabled, checked>>
       ELSE /\ PanelFinish(state, "complete")
            /\ UNCHANGED calls
    /\ PanelFrame
    /\ UNCHANGED <<rowBuffer, headersChecked, lineLog, validIds, sessions, selection,
                   activeMapping, lists, runMapping, mappingsUsed, runOnSelection>>

\* The tail's sink call settles with outcome o: sendBatch returns, the
\* result is reconciled and the session is finished.
PanelTailSettles(o) ==
    /\ pc = "tail"
    /\ o \in SinkOutcomes(Len(rowBuffer))
    /\ LET r == SendBatch(rowBuffer, o)
           st == HandleBatchResult([state EXCEPT !.errorCount = @ + r.errorCountAdded],
                                   r.result)
       IN  /\ PanelFinish(st, "complete")
           /\ lists' = PushBatch(lists, r.result)
    /\ rowBuffer' = <<>>
    /\ calls' = <<>>
    /\ PanelFrame
    /\ UNCHANGED <<headersChecked, parser, lineLog, validIds, sessions, selection,
                   activeMapping, runMapping, mappingsUsed, runOnSelection>>

\* The error callback of the tokenizer.
PanelParseError ==
    /\ parser = "streaming"
    /\ parser' = "ended"
    /\ PanelFinish(state, "error")
    /\ PanelFrame
    /\ UNCHANGED <<rowBuffer, headersChecked, calls, lineLog, validIds, sessions, selection,
                   activeMapping, lists, runMapping, mappingsUsed, runOnSelection>>

PanelChunks == SeqsUpTo(Outcomes, MaxPanelRecords)

PanelNext ==
    \/ \E file \in Files : PanelFileSelect(file)
    \/ PanelFileRemove
    \/ \E mode \in Modes : PanelStart(mode)
    \/ PanelFileLoaded
    \/ PanelFileReadFailed
    \/ \E outs \in PanelChunks : PanelChunk(outs)
    \/ PanelComplete
    \/ \E n \in 1..MaxPanelRecords : \E o \in SinkOutcomes(n) : PanelTailSettles(o)
    \/ PanelParseError

PanelSpec == PanelInit /\ [][PanelNext]_vars

\* ------------------------------------------------------------- the exports and the telemetry
\* The engine with its result lists and its calls on the metrics backend,
\* beside a twin: the same engine constructed with metricsBackend.enabled
\* false and given the same file, the same clicks and the same sink
\* results.  As in the panel, chunkSize is larger than any file, so the
\* valid records of an import leave in the tail call.  An engine is a
\* record here (e): state, rowBuffer, the histories, the lists (rows), the
\* sampler's set (keys) and map (counts), the posts it has handed to the
\* backend in the handler under way, and whether that handler was left by
\* an exception (thrown).
ExportKinds == {"success", "errors", "filtered"}

ExportOutcomes == Outcomes \cup {"invalidNoMessage"}

SampleTypes == {"client-validation", "validation", "api", "network", "parsing"}

SampleMessage == <<"Missing", "name">>

SampleKeys == {ErrorKey(t, ExtractErrorPattern(SampleMessage)) : t \in SampleTypes}

NoSamples == [k \in SampleKeys |-> 0]

NoEngine ==
    [state |-> [InitialState EXCEPT !.selectedFile = TRUE], rowBuffer |-> <<>>,
     lineLog |-> <<>>, validIds |-> {}, rows |-> NoRows, sent |-> <<>>,
     keys |-> {}, counts |-> NoSamples, posts |-> 0, thrown |-> FALSE]

\* The engine of the variables, at the entry of a handler.
Engine ==
    [state |-> state, rowBuffer |-> rowBuffer, lineLog |-> lineLog,
     validIds |-> validIds, rows |-> rows, sent |-> sentLog, keys |-> uniqueErrors,
     counts |-> errorPatternCounts, posts |-> 0, thrown |-> FALSE]

\* The handler has left the engine as e.
Becomes(e) ==
    /\ state' = e.state
    /\ rowBuffer' = e.rowBuffer
    /\ lineLog' = e.lineLog
    /\ validIds' = e.validIds
    /\ rows' = e.rows
    /\ sentLog' = e.sent
    /\ uniqueErrors' = e.keys
    /\ errorPatternCounts' = e.counts
    /\ pendingAudit' = pendingAudit + e.posts

\* sendToMetricsBackend, sendAuditLog and sendProgressUpdate, called and
\* not awaited: with the backend enabled a post is under way when the
\* caller goes on.
Post(e, enabled) == IF enabled THEN [e EXCEPT !.posts = @ + 1] ELSE e

\* SampleCall for a sendErrorSample that is not an async function: what
\* extractErrorPattern throws on a message that is no text reaches the caller.
SampleCallNotAsync(enabled, hasMessage) ==
    IF enabled /\ ~hasMessage THEN "throws" ELSE "returns"

\* What reaches the caller of this.sendErrorSample(...): the function is
\* async, so it returns a promise whatever happens inside it, and no caller
\* awaits that promise.
SampleCall(enabled, hasMessage) == "returns"

\* sendErrorSample up to its first await.  On a message that is undefined
\* extractErrorPattern throws before anything is counted.
Sample(e, enabled, errorType, hasMessage) ==
    IF ~enabled \/ ~hasMessage THEN e
    ELSE LET errorKey == ErrorKey(errorType, ExtractErrorPattern(SampleMessage))
             currentCount == e.counts[errorKey]
             counted == [e EXCEPT !.counts[errorKey] = currentCount + 1]
         IN  IF FirstOccurrence(e.keys, errorKey)
             THEN Post([counted EXCEPT !.keys = @ \cup {errorKey}], enabled)
             ELSE IF RepeatDue(currentCount) THEN Post(counted, enabled)
             ELSE counted

\* this.sendErrorSample(...) at a call site: a call that throws leaves the
\* handler.
SampleAt(e, enabled, errorType, hasMessage) ==
    IF e.thrown THEN e
    ELSE IF SampleCall(enabled, hasMessage) = "throws" THEN [e EXCEPT !.thrown = TRUE]
    ELSE Sample(e, enabled, errorType, hasMessage)

RECURSIVE SampleEach(_, _, _, _)
SampleEach(e, n, enabled, errorType) ==
    IF n = 0 THEN e
    ELSE SampleEach(SampleAt(e, enabled, errorType, TRUE), n - 1, enabled, errorType)

\* One iteration of the for loop of processRows, with its pushes on the
\* lists and its sample of a validation error.
ProcessRowExports(e, o, export, enabled) ==
    LET csvLineNumber == e.state.currentCsvLine
        row == [id |-> Len(e.lineLog) + 1, line |-> csvLineNumber]
        outcome == IF o = "invalidNoMessage" THEN "invalid" ELSE o
        c == ProcessRow(e, outcome)
    IN  CASE outcome = "filtered" ->
                [c EXCEPT !.rows.filteredRows = Append(@, row)]
          [] outcome = "valid" ->
                IF c.state.mode = "import" THEN c
                ELSE [c EXCEPT !.rows.successRows = Append(@, row)]
          [] OTHER ->
                SampleAt(IF "errors" \in export
                         THEN [c EXCEPT !.rows.errorRows = Append(@, row)]
                         ELSE c,
                         enabled, "client-validation", o = "invalid")

RECURSIVE ProcessRowsExports(_, _, _, _)
\* processRows: the row loop, then the progress update; no full batch is
\* in the buffer, so the drain loop is not entered.
ProcessRowsExports(e, outs, export, enabled) ==
    IF e.thrown THEN e
    ELSE IF outs = <<>> THEN Post(e, enabled)
    ELSE ProcessRowsExports(ProcessRowExports(e, Head(outs), export, enabled),
                            Tail(outs), export, enabled)

\* batch.slice(0, n)
Slice(batch, n) == SubSeq(batch, 1, IF n < Len(batch) THEN n ELSE Len(batch))

\* The error row made of a sink error whose data is null: no line number.
ServerRow == [id |-> 0, line |-> 0]

\* HandleBatchResultExports keeping the last records of the batch.
HandleBatchResultKeepsLast(e, result, batch, export, enabled) ==
    LET n == IF result.success < Len(batch) THEN result.success ELSE Len(batch)
        c == [e EXCEPT
                !.state = HandleBatchResult(e.state, result),
                !.rows.successRows =
                    IF "success" \in export
                    THEN @ \o SubSeq(batch, Len(batch) - n + 1, Len(batch)) ELSE @,
                !.rows.errorRows =
                    IF "errors" \in export
                    THEN @ \o [i \in 1..result.errors |-> ServerRow] ELSE @]
    IN  SampleEach(c, result.errors, enabled,
                   IF "errors" \in export THEN "validation" ELSE "api")

\* handleBatchResult(result, batch) with the lists.
HandleBatchResultExports(e, result, batch, export, enabled) ==
    LET c == [e EXCEPT
                !.state = HandleBatchResult(e.state, result),
                !.rows.successRows =
                    IF "success" \in export THEN @ \o Slice(batch, result.success) ELSE @,
                !.rows.errorRows =
                    IF "errors" \in export
                    THEN @ \o [i \in 1..result.errors |-> ServerRow] ELSE @]
    IN  SampleEach(c, result.errors, enabled,
                   IF "errors" \in export THEN "validation" ELSE "api")

\* The posts of finishImport: the final metrics, the completion entry and,
\* if the sampler counted anything, the summary of its patterns.
FinishImportExports(e, enabled) ==
    LET c == Post(Post([e EXCEPT !.state = FinishImport(@)], enabled), enabled)
    IN  IF \E k \in SampleKeys : c.counts[k] > 0 THEN Post(c, enabled) ELSE c

\* startImport: the resets (the lists are not among them) and the entry
\* 'Import started' of the audit log.
StartImportExports(e, mode, enabled) ==
    Post([e EXCEPT !.state = ResetSession(@, mode), !.rowBuffer = <<>>,
                   !.lineLog = <<>>, !.validIds = {}, !.sent = <<>>,
                   !.keys = ResetUniqueErrors(@), !.counts = NoSamples],
         enabled)

\* The complete callback from the return of the tail's sendBatch: the
\* sample of sendBatch's outer catch block, the reconciliation, the
\* emptied buffer and finishImport.
TailSettledExports(e, o, export, enabled) ==
    LET batch == e.rowBuffer
        r == SendBatch(batch, o)
        sent == SampleAt([e EXCEPT !.state.errorCount = @ + r.errorCountAdded],
                         enabled, "network", TRUE)
        c == IF o.kind = "rejectNoReason" THEN sent ELSE e
        d == HandleBatchResultExports(c, r.result, batch, export, enabled)
    IN  FinishImportExports([d EXCEPT !.rowBuffer = <<>>], enabled)

\* The results the sink is given to return here: those of SinkOutcomes and
\* one that reports a success more than the batch holds.
ExportSinkOutcomes(n) == SinkOutcomes(n) \cup {Object(n + 1, 0)}

ExportInit ==
    /\ config = [chunkSize |-> MaxPanelRecords + 1, concurrency |-> 1,
                 waitBetweenChunks |-> 0]
    /\ state = NoEngine.state
    /\ rowBuffer = <<>>
    /\ headersChecked = FALSE
    /\ parser = "none"
    /\ pc = "idle"
    /\ calls = <<>>
    /\ lineLog = <<>>
    /\ validIds = {}
    /\ sentLog = <<>>
    /\ endedBy = "none"
    /\ faultLog = <<>>
    /\ sessions = 0
    /\ \E enabled \in BOOLEAN :
           /\ metricsEnabled = enabled
           /\ backend \in IF enabled THEN {"healthy", "failing"} ELSE {"healthy"}
    /\ uniqueErrors = {}
    /\ errorPatternCounts = NoSamples
    /\ pendingAudit = 0
    /\ occurrences = NoCounts
    /\ fullEvents = NoCounts
    /\ repeatEvents = NoCounts
    /\ earlierKeys = {}
    /\ DelimiterIdle /\ RowIdle /\ RegistryIdle /\ OtherIdle
    /\ flow = DefaultFlow
    /\ resultExport \in SUBSET ExportKinds
    /\ disabled = [startBtn |-> TRUE, checkBtn |-> TRUE]
    /\ selection = "none"
    /\ activeMapping = "default"
    /\ lists = NoLists
    /\ runMapping = "default"
    /\ mappingsUsed = {}
    /\ runOnSelection = FALSE
    /\ checked = FALSE
    /\ rows = NoRows
    /\ twin = NoEngine
    /\ reconciled = <<>>

\* What no handler of a session writes.
ExportFrame ==
    UNCHANGED <<config, metricsEnabled, backend, resultExport, faultLog, occurrences, fullEvents,
                repeatEvents, earlierKeys, delimiterVars, rowVars, flow, disabled,
                selection, activeMapping, lists, runMapping, mappingsUsed,
                runOnSelection, checked, registryVars, orderVars, otherVars>>

\* startImport(mode) up to fileReader.readAsText, for the first run of the
\* engine.
ExportStart(mode) ==
    /\ MayStart(state)
    /\ sessions = 0
    /\ Becomes(StartImportExports(Engine, mode, metricsEnabled))
    /\ twin' = StartImportExports(twin, mode, FALSE)
    /\ sessions' = sessions + 1
    /\ pc' = "reading"
    /\ parser' = "none"
    /\ endedBy' = "none"
    /\ ExportFrame
    /\ UNCHANGED <<headersChecked, calls>>

ExportFileLoaded ==
    /\ pc = "reading"
    /\ headersChecked' = FALSE
    /\ parser' = "streaming"
    /\ pc' = "parsing"
    /\ ExportFrame
    /\ UNCHANGED <<state, rowBuffer, calls, lineLog, validIds, sentLog, sessions, endedBy,
                   uniqueErrors, errorPatternCounts, pendingAudit, exportVars>>

\* The chunk callback: parser.pause(), processRows, parser.resume().  An
\* exception in processRows leaves the tokenizer paused.
ExportChunk(outs) ==
    /\ parser = "streaming"
    /\ outs # <<>>
    /\ Len(lineLog) + Len(outs) <= MaxPanelRecords
    /\ LET e == ProcessRowsExports(Engine, outs, resultExport, metricsEnabled)
       IN  /\ Becomes(e)
           /\ parser' = IF e.thrown THEN PauseParser(parser) ELSE parser
           /\ pc' = IF e.thrown THEN "aborted" ELSE pc
    /\ twin' = ProcessRowsExports(twin, outs, resultExport, FALSE)
    /\ headersChecked' = TRUE
    /\ ExportFrame
    /\ UNCHANGED <<calls, sessions, endedBy>>

\* The complete callback up to its await of the tail's sendBatch, or
\* through finishImport.
ExportComplete ==
    /\ parser = "streaming"
    /\ parser' = "ended"
    /\ IF FlushesTail(rowBuffer, state.mode)
       THEN /\ calls' = <<NewCall(rowBuffer)>>
            /\ Becomes([Engine EXCEPT
                           !.sent = Append(@, [batch |-> rowBuffer, tail |-> TRUE])])
            /\ twin' = [twin EXCEPT
                           !.sent = Append(@, [batch |-> twin.rowBuffer, tail |-> TRUE])]
            /\ pc' = "tail"
            /\ UNCHANGED endedBy
       ELSE /\ Becomes(FinishImportExports(Engine, metricsEnabled))
            /\ twin' = FinishImportExports(twin, FALSE)
            /\ pc' = "idle"
            /\ endedBy' = "complete"
            /\ UNCHANGED calls
    /\ ExportFrame
    /\ UNCHANGED <<headersChecked, sessions>>

\* The tail's sink call settles with outcome o.
ExportTailSettles(o) ==
    /\ pc = "tail"
    /\ o \in ExportSinkOutcomes(Len(rowBuffer))
    /\ Becomes(TailSettledExports(Engine, o, resultExport, metricsEnabled))
    /\ twin' = TailSettledExports(twin, o, resultExport, FALSE)
    /\ calls' = <<[NewCall(rowBuffer) EXCEPT !.st = "settled", !.outcome = o,
                                            !.result = SendBatch(rowBuffer, o).result]>>
    /\ pc' = "idle"
    /\ endedBy' = "complete"
    /\ ExportFrame
    /\ UNCHANGED <<headersChecked, parser, sessions>>

\* The error callback of the tokenizer: the fault is sampled and the
\* session is finished.
ExportParseError ==
    /\ parser = "streaming"
    /\ parser' = "ended"
    /\ Becomes(FinishImportExports(SampleAt(Engine, metricsEnabled, "parsing", TRUE),
                                   metricsEnabled))
    /\ twin' = FinishImportExports(SampleAt(twin, FALSE, "parsing", TRUE), FALSE)
    /\ pc' = "idle"
    /\ endedBy' = "error"
    /\ ExportFrame
    /\ UNCHANGED <<headersChecked, calls, sessions>>

\* A post to the metrics backend settles: fetch resolves, or it rejects and
\* the catch block of sendToMetricsBackend logs a warning.
PostSettles ==
    /\ pendingAudit > 0
    /\ pendingAudit' = pendingAudit - 1
    /\ ExportFrame
    /\ UNCHANGED <<state, rowBuffer, headersChecked, parser, pc, calls, lineLog, validIds,
                   sentLog, sessions, endedBy, uniqueErrors, errorPatternCounts,
                   exportVars>>

ExportChunks == SeqsUpTo(ExportOutcomes, MaxPanelRecords)

ExportNext ==
    \/ \E mode \in Modes : ExportStart(mode)
    \/ ExportFileLoaded
    \/ \E outs \in ExportChunks : ExportChunk(outs)
    \/ ExportComplete
    \/ \E n \in 1..MaxPanelRecords : \E o \in ExportSinkOutcomes(n) : ExportTailSettles(o)
    \/ ExportParseError
    \/ PostSettles

ExportSpec == ExportInit /\ [][ExportNext]_vars

\* ------------------------------------------------------------- the plugin registry
\* The static registry ImportSDK.plugins under its three mutators.  A plugin
\* is told by its name, its type and its transform member; name 0 stands for
\* a name that is falsy ("" or undefined), and transform is a function,
\* absent, or a truthy value that is not a function ("string").
MaxNames == 2

pluginTypes == {"field", "row", "batch", "file", "import", "error", "metrics"}

Members == {"function", "absent", "string"}

\* The types the calls are made with: the one type with a required member,
\* two of the six without, and one that is not a plugin type.
Types == {"field", "row", "metrics", "other"}

Plugins ==
    [name : 0..MaxNames,
     type : Types,
     transform : Members]

RegistryInit ==
    /\ config = [chunkSize |-> 1, concurrency |-> 1, waitBetweenChunks |-> 0]
    /\ EngineInit
    /\ sessions = 0
    /\ metricsEnabled = FALSE
    /\ uniqueErrors = {}
    /\ errorPatternCounts = NoCounts
    /\ pendingAudit = 0
    /\ occurrences = NoCounts
    /\ fullEvents = NoCounts
    /\ repeatEvents = NoCounts
    /\ earlierKeys = {}
    /\ PureIdle

\* What the registry's mutators never touch: every instance.
RegistryFrame ==
    UNCHANGED <<engineVars, sessions, samplerVars, delimiterVars, rowVars,
                panelVars, restVars>>

\* ImportSDK.plugins.find(p => p.name === name) finds an entry.
Find(plugins, name) == \E i \in 1..Len(plugins) : plugins[i].name = name

\* _validatePlugin(plugin) throws: a field plugin whose transform is falsy,
\* or a member that is truthy and not a function.
ValidatePluginThrows(plugin) ==
    \/ plugin.type = "field" /\ plugin.transform = "absent"
    \/ plugin.transform = "string"

UseThrowsOnDuplicatesNever(plugin, plugins) ==
    \/ plugin.name = 0
    \/ plugin.type \notin pluginTypes
    \/ ValidatePluginThrows(plugin)

\* use(plugin) throws before its push.
UseThrows(plugin, plugins) ==
    \/ plugin.name = 0
    \/ plugin.type \notin pluginTypes
    \/ Find(plugins, plugin.name)
    \/ ValidatePluginThrows(plugin)

\* The name taken out by the call before this one, 0 if it took none out.
JustRemoved ==
    IF lastCall.op = "removePlugin" /\ lastCall.outcome = "true"
    THEN lastCall.name ELSE 0

\* ImportSDK.use(plugin)
Use(plugin) ==
    /\ registry' = IF UseThrows(plugin, registry) THEN registry
                   ELSE Append(registry, plugin)
    /\ lastCall' = [op |-> "use", plugin |-> plugin, name |-> 0,
                    outcome |-> IF UseThrows(plugin, registry) THEN "thrown"
                                ELSE "registered",
                    afterRemoval |-> JustRemoved]
    /\ RegistryFrame

\* findIndex: the first index holding the name, 0 if there is none.
FindIndex(plugins, name) ==
    IF Find(plugins, name)
    THEN CHOOSE i \in 1..Len(plugins) :
             /\ plugins[i].name = name
             /\ \A j \in 1..(i - 1) : plugins[j].name # name
    ELSE 0

\* splice(index, 1)
Splice(plugins, index) ==
    [i \in 1..(Len(plugins) - 1) |->
        IF i < index THEN plugins[i] ELSE plugins[i + 1]]

\* ImportSDK.removePlugin(name)
RemovePlugin(name) ==
    /\ LET index == FindIndex(registry, name)
       IN  /\ registry' = IF index > 0 THEN Splice(registry, index) ELSE registry
           /\ lastCall' = [op |-> "removePlugin", plugin |-> NoPlugin,
                           name |-> name,
                           outcome |-> IF index > 0 THEN "true" ELSE "false",
                           afterRemoval |-> 0]
    /\ RegistryFrame

\* ImportSDK.clearPlugins()
ClearPlugins ==
    /\ registry' = <<>>
    /\ lastCall' = [op |-> "clearPlugins", plugin |-> NoPlugin, name |-> 0,
                    outcome |-> "cleared", afterRemoval |-> 0]
    /\ RegistryFrame

RegistryNext ==
    \/ \E plugin \in Plugins : Use(plugin)
    \/ \E name \in 0..MaxNames : RemovePlugin(name)
    \/ ClearPlugins

RegistrySpec == RegistryInit /\ [][RegistryNext]_vars

\* ------------------------------------------------- an instance and the registry
\* One engine instance beside the static registry: the constructor takes
\* its plugins from the registry, the row pipeline and sendBatch loop over
\* what the constructor took, and use, removePlugin and clearPlugins go on
\* being called at any time.  The plugins drawn here are of the three
\* types the constructor asks for and supply every hook of their type.
ActiveTypes == {"field", "row", "batch"}

ActivePlugins == [name : 1..MaxNames, type : ActiveTypes, transform : {"function"}]

\* ImportSDK.getPluginsByType(type): a new array, in registry order.
GetPluginsByType(plugins, type) == SelectSeq(plugins, LAMBDA p : p.type = type)

Names(plugins) == [i \in 1..Len(plugins) |-> plugins[i].name]

Constructed == registeredAtInit # <<>>

\* this.activePlugins = { field: ..., row: ..., batch: ... }
Construct ==
    /\ ~Constructed
    /\ activePlugins' = [type \in ActiveTypes |-> GetPluginsByType(registry, type)]
    /\ registeredAtInit' = <<registry>>
    /\ UNCHANGED <<engineVars, sessions, samplerVars, delimiterVars, rowVars, panelVars,
                   registryVars, exportVars, orderVars, normalizeVars, hookLog>>

PipelinePluginsLive(type) == GetPluginsByType(registry, type)

\* for (const plugin of this.activePlugins.row), and its like for the
\* other two types.
PipelinePlugins(type) == activePlugins[type]

\* Which plugins an operation loops over, in order: filterRow the row
\* plugins, validateRow and transformRow the field plugins and then the
\* row plugins, sendBatch the batch plugins before and after the sink call.
HookLoop(hook) ==
    CASE hook = "filter" -> PipelinePlugins("row")
      [] hook \in {"validate", "transform"} ->
             PipelinePlugins("field") \o PipelinePlugins("row")
      [] hook \in {"beforeSend", "afterSend"} -> PipelinePlugins("batch")

\* The same loops over a registry.
RegistryLoop(plugins, hook) ==
    CASE hook = "filter" -> GetPluginsByType(plugins, "row")
      [] hook \in {"validate", "transform"} ->
             GetPluginsByType(plugins, "field") \o GetPluginsByType(plugins, "row")
      [] hook \in {"beforeSend", "afterSend"} -> GetPluginsByType(plugins, "batch")

Hooks == {"filter", "validate", "transform", "beforeSend", "afterSend"}

\* The loops that return at the first hook that rejects.
Stopping == {"filter", "validate"}

\* One operation of the instance on a record or a batch: it calls the hook
\* of the first `called` plugins of its loop; a loop that cannot stop
\* calls them all.
RunHooks(hook, called) ==
    /\ Constructed
    /\ called <= Len(HookLoop(hook))
    /\ hook \notin Stopping => called = Len(HookLoop(hook))
    /\ called = 0 => HookLoop(hook) = <<>>
    /\ hookLog' = [hook |-> hook,
                   names |-> SubSeq(Names(HookLoop(hook)), 1, called),
                   all |-> called = Len(HookLoop(hook)),
                   live |-> Names(RegistryLoop(registry, hook))]
    /\ UNCHANGED <<engineVars, sessions, samplerVars, delimiterVars, rowVars, panelVars,
                   registryVars, exportVars, orderVars, normalizeVars, activePlugins,
                   registeredAtInit>>

SnapshotInit ==
    /\ config = [chunkSize |-> 1, concurrency |-> 1, waitBetweenChunks |-> 0]
    /\ EngineInit
    /\ sessions = 0
    /\ metricsEnabled = FALSE
    /\ uniqueErrors = {}
    /\ errorPatternCounts = NoCounts
    /\ pendingAudit = 0
    /\ occurrences = NoCounts
    /\ fullEvents = NoCounts
    /\ repeatEvents = NoCounts
    /\ earlierKeys = {}
    /\ PureIdle

SnapshotNext ==
    \/ \E plugin \in ActivePlugins : Use(plugin)
    \/ \E name \in 1..MaxNames : RemovePlugin(name)
    \/ ClearPlugins
    \/ Construct
    \/ \E hook \in Hooks, called \in 0..MaxNames : RunHooks(hook, called)

SnapshotSpec == SnapshotInit /\ [][SnapshotNext]_vars

\* C39: the row pipeline and sendBatch of an instance run the hooks of the
\* field, row and batch plugins that were registered when the instance was
\* constructed, in registry order, whatever use, removePlugin and
\* clearPlugins have done to the registry since.
C39_PipelineUsesSnapshot ==
    Constructed =>
        /\ \A type \in ActiveTypes :
               activePlugins[type] = GetPluginsByType(registeredAtInit[1], type)
        /\ hookLog.hook # "none" =>
               LET atInit == Names(RegistryLoop(registeredAtInit[1], hookLog.hook))
               IN  /\ Len(hookLog.names) <= Len(atInit)
                   /\ hookLog.names = SubSeq(atInit, 1, Len(hookLog.names))
                   /\ hookLog.all => hookLog.names = atInit

\* The registry was cleared after the construction and a hook of a plugin
\* that is no longer registered has run since.
C39_Witness ==
    /\ Constructed
    /\ hookLog.hook = "beforeSend"
    /\ hookLog.names # <<>>
    /\ hookLog.live = <<>>
    /\ registry = <<>>

\* ------------------------------------------------------------- the sampler alone
\* The error-pattern sampler under every stream of sendErrorSample calls a
\* session can make, with the rest of the engine left out: a run starts
\* (startImport calls resetMetrics), errors are sampled, and the posts to
\* the metrics backend settle whenever they do.
SamplerInit ==
    /\ config = [chunkSize |-> 1, concurrency |-> 1, waitBetweenChunks |-> 0]
    /\ EngineInit
    /\ sessions = 0
    /\ metricsEnabled \in BOOLEAN
    /\ uniqueErrors = {}
    /\ errorPatternCounts = NoCounts
    /\ pendingAudit = 0
    /\ occurrences = NoCounts
    /\ fullEvents = NoCounts
    /\ repeatEvents = NoCounts
    /\ earlierKeys = {}
    /\ PureIdle

RECURSIVE SumOver(_, _)
SumOver(c, keys) ==
    IF keys = {} THEN 0
    ELSE LET k == CHOOSE x \in keys : TRUE IN c[k] + SumOver(c, keys \ {k})

\* The resetMetrics call of startImport, as far as the sampler goes.
SamplerRunStarts ==
    /\ sessions < MaxSessions
    /\ sessions' = sessions + 1
    /\ uniqueErrors' = ResetUniqueErrors(uniqueErrors)
    /\ errorPatternCounts' = ResetErrorPatternCounts(errorPatternCounts)
    /\ earlierKeys' = earlierKeys \cup {k \in AllKeys : occurrences[k] > 0}
    /\ occurrences' = NoCounts
    /\ fullEvents' = NoCounts
    /\ repeatEvents' = NoCounts
    /\ UNCHANGED <<engineVars, metricsEnabled, pendingAudit, pureVars>>

\* sendErrorSample(errorMessage, errorType) up to its await of sendAuditLog,
\* whose post to the backend is under way when the call suspends.
SendErrorSample(errorMessage, errorType) ==
    /\ sessions > 0
    /\ SumOver(occurrences, AllKeys) < MaxSamples
    /\ IF ~metricsEnabled
       THEN UNCHANGED <<uniqueErrors, errorPatternCounts, pendingAudit, fullEvents,
                        repeatEvents, occurrences>>
       ELSE LET errorPattern == ExtractErrorPattern(errorMessage)
                errorKey == ErrorKey(errorType, errorPattern)
                currentCount == errorPatternCounts[errorKey]
            IN  /\ occurrences' = [occurrences EXCEPT ![errorKey] = @ + 1]
                /\ errorPatternCounts' =
                       [errorPatternCounts EXCEPT ![errorKey] = currentCount + 1]
                /\ IF FirstOccurrence(uniqueErrors, errorKey)
                   THEN /\ pendingAudit < MaxPending
                        /\ uniqueErrors' = uniqueErrors \cup {errorKey}
                        /\ fullEvents' = [fullEvents EXCEPT ![errorKey] = @ + 1]
                        /\ pendingAudit' = pendingAudit + 1
                        /\ UNCHANGED repeatEvents
                   ELSE IF RepeatDue(currentCount)
                   THEN /\ pendingAudit < MaxPending
                        /\ repeatEvents' = [repeatEvents EXCEPT ![errorKey] = @ + 1]
                        /\ pendingAudit' = pendingAudit + 1
                        /\ UNCHANGED <<uniqueErrors, fullEvents>>
                   ELSE UNCHANGED <<uniqueErrors, fullEvents, repeatEvents, pendingAudit>>
    /\ UNCHANGED <<engineVars, sessions, metricsEnabled, earlierKeys, pureVars>>

\* A post to the metrics backend settles; a failure is swallowed.
AuditSettles ==
    /\ pendingAudit > 0
    /\ pendingAudit' = pendingAudit - 1
    /\ UNCHANGED <<engineVars, sessions, metricsEnabled, uniqueErrors,
                   errorPatternCounts, occurrences, fullEvents, repeatEvents,
                   earlierKeys, pureVars>>

SamplerNext ==
    \/ SamplerRunStarts
    \/ \E m \in Messages, t \in ErrorTypes : SendErrorSample(m, t)
    \/ AuditSettles

SamplerSpec == SamplerInit /\ [][SamplerNext]_vars

\* C10: with telemetry enabled, in each session every key that has occurred
\* has had exactly one full first-occurrence event posted, already when it
\* has occurred once, and a key that has not occurred has had none;
\* whether earlier posts are still outstanding, and whether the key occurred
\* in an earlier session, makes no difference.
C10_OneFullEventPerKey ==
    metricsEnabled =>
        \A k \in AllKeys : fullEvents[k] = IF occurrences[k] > 0 THEN 1 ELSE 0

\* A key that occurred in an earlier session occurs again, more than once,
\* while posts are outstanding.
C10_Witness ==
    /\ metricsEnabled
    /\ pendingAudit >= 2
    /\ \E k \in earlierKeys : occurrences[k] >= 2 /\ fullEvents[k] = 1

\* ------------------------------------------------------------- detectDelimiter
\* A text is a sequence of characters; "\n" ends a line and "\t" is a tab.
MaxLines == 6

\* const lines = content.split('\n').slice(0, 5)
AnalyzedLines == 5

\* const delimiters = [',', ';', '\t', '|']
Delimiters == <<",", ";", "\t", "|">>

\* Object.keys(scores).reduce(..., ','): the value the reduction starts from.
DefaultDelimiter == ","

SampleLines ==
    { <<"a", ",", "b">>,
      <<"a", ",", "b", ",", "c">>,
      <<"\"", ",", "\"", ";", "c">>,
      <<"a", "|", "b", "\t", "c">>,
      <<"a">> }

RECURSIVE Join(_)
Join(ls) ==
    IF Len(ls) = 1 THEN Head(ls) ELSE Head(ls) \o <<"\n">> \o Join(Tail(ls))

Contents == {Join(ls) : ls \in SeqsUpTo(SampleLines, MaxLines) \ {<<>>}}

\* content.split('\n'): the parts between line feeds, one more than there
\* are line feeds.
RECURSIVE Split(_, _)
Split(text, line) ==
    IF text = <<>> THEN <<line>>
    ELSE IF Head(text) = "\n" THEN <<line>> \o Split(Tail(text), <<>>)
    ELSE Split(Tail(text), Append(line, Head(text)))

FirstLines(text) ==
    LET lines == Split(text, <<>>)
    IN  SubSeq(lines, 1, IF Len(lines) < AnalyzedLines THEN Len(lines) ELSE AnalyzedLines)

\* The loop over the characters of one line: a double quote toggles
\* inQuotes, the delimiter counts when outside quotes.
RECURSIVE CountOutsideQuotes(_, _, _)
CountOutsideQuotes(line, delimiter, inQuotes) ==
    IF line = <<>> THEN 0
    ELSE IF Head(line) = "\""
         THEN CountOutsideQuotes(Tail(line), delimiter, ~inQuotes)
    ELSE IF Head(line) = delimiter /\ ~inQuotes
         THEN 1 + CountOutsideQuotes(Tail(line), delimiter, inQuotes)
    ELSE CountOutsideQuotes(Tail(line), delimiter, inQuotes)

\* lines.map(...).filter(count => count > 0)
LineCounts(lines, delimiter) ==
    SelectSeq([i \in 1..Len(lines) |-> CountOutsideQuotes(lines[i], delimiter, FALSE)],
              LAMBDA count : count > 0)

\* scores[delimiter], as the fraction <<numerator, denominator>>:
\* avgCount * consistency, or 0 when no line contains the delimiter.
Score(lines, delimiter) ==
    LET lineCounts == LineCounts(lines, delimiter)
        consistency ==
            IF \A i \in 1..Len(lineCounts) : lineCounts[i] = lineCounts[1] THEN 2 ELSE 1
    IN  IF Len(lineCounts) > 0
        THEN <<SumSeq(lineCounts) * consistency, Len(lineCounts)>>
        ELSE <<0, 1>>

Greater(x, y) == x[1] * y[2] > y[1] * x[2]

\* scores[a] > scores[b] ? a : b
Pick(lines, a, b) ==
    IF Greater(Score(lines, a), Score(lines, b)) THEN a ELSE b

\* Object.keys(scores).reduce((a, b) => ..., ',')
RECURSIVE Reduce(_, _, _)
Reduce(lines, a, keys) ==
    IF keys = <<>> THEN a
    ELSE Reduce(lines, Pick(lines, a, Head(keys)), Tail(keys))

DetectDelimiter(text) == Reduce(FirstLines(text), DefaultDelimiter, Delimiters)

DelimiterInit ==
    /\ config = [chunkSize |-> 1, concurrency |-> 1, waitBetweenChunks |-> 0]
    /\ EngineInit
    /\ sessions = 0
    /\ metricsEnabled = FALSE
    /\ uniqueErrors = {}
    /\ errorPatternCounts = NoCounts
    /\ pendingAudit = 0
    /\ occurrences = NoCounts
    /\ fullEvents = NoCounts
    /\ repeatEvents = NoCounts
    /\ earlierKeys = {}
    /\ content \in Contents
    /\ detected = "none"
    /\ RowIdle /\ PanelIdle /\ RegistryIdle /\ RestIdle

\* detectedDelimiter = this.detectDelimiter(content)
DelimiterDetected ==
    /\ detected = "none"
    /\ detected' = DetectDelimiter(content)
    /\ UNCHANGED <<engineVars, sessions, samplerVars, content, rowVars, panelVars,
                   registryVars, restVars>>

DelimiterNext == DelimiterDetected

DelimiterSpec == DelimiterInit /\ [][DelimiterNext]_vars

\* ------------------------------------------------- the normalizer

\* Characters of a file's text.
MaxChars == 3

\* The characters the texts are made of: a letter, a delimiter, a quote,
\* a space, the two line terminators, the byte order mark and a Unicode
\* space (U+2003).
Characters == {"a", ";", "\"", " ", "\r", "\n", "U+FEFF", "U+2003"}

CsvContents == SeqsUpTo(Characters, MaxChars)

\* The passes of normalizeCSV in the order it runs them.
Passes ==
    <<"trimBOM", "autoDetectDelimiter", "removeUnicodeJunk", "normalizeLineEndings",
      "stripEmptyLines", "sanitizeHeaders">>

PassNames == {Passes[i] : i \in 1..Len(Passes)}

Normalizations ==
    {[DefaultNormalization EXCEPT !.enabled = FALSE]}
        \cup {[p \in PassNames \cup {"enabled"} |-> p = "enabled" \/ p \in on] :
                 on \in SUBSET PassNames}

\* An entry of issues: the note, and the number or the delimiter it quotes.
Issue(note, count, delimiter) == [note |-> note, count |-> count, delimiter |-> delimiter]

StartsWith(text, prefix) ==
    Len(prefix) <= Len(text) /\ SubSeq(text, 1, Len(prefix)) = prefix

EndsWith(text, suffix) ==
    Len(suffix) <= Len(text)
        /\ SubSeq(text, Len(text) - Len(suffix) + 1, Len(text)) = suffix

\* const bomPatterns = [...]: the last one is the character U+EFBB followed
\* by the letters B and F.
BomPatterns ==
    << <<"U+FEFF">>, <<"U+FFFE">>, <<"U+0000", "U+FEFF">>, <<"U+EFBB", "B", "F">> >>

\* 1. Trim BOM: the first pattern the content starts with is sliced off.
TrimBOM(r) ==
    LET found == {i \in 1..Len(BomPatterns) : StartsWith(r.content, BomPatterns[i])}
        first == CHOOSE i \in found : \A j \in found : i <= j
        bom == BomPatterns[first]
    IN  IF Len(r.content) > 0 /\ found # {}
        THEN [r EXCEPT !.content = SubSeq(@, Len(bom) + 1, Len(@)),
                       !.issues = Append(@, Issue("Removed BOM", Len(bom), ""))]
        ELSE r

\* 2. Auto-detect delimiter.
AutoDetectDelimiter(r) ==
    LET detectedDelimiter == DetectDelimiter(r.content)
    IN  [r EXCEPT !.delimiter = detectedDelimiter,
                  !.issues = IF detectedDelimiter # ","
                             THEN Append(@, Issue("Auto-detected delimiter", 0,
                                                  detectedDelimiter))
                             ELSE @]

\* The zero-width characters of the first replace.
ZeroWidth == {"U+200B", "U+200C", "U+200D", "U+FEFF", "U+00A0", "U+2060", "U+180E"}

\* The control characters of the second replace, except tab, LF and CR, of the characters named here.
ControlChars == {"U+0000", "U+007F"}

\* The Unicode spaces of the third replace, of the characters named here.
UnicodeSpaces == {"U+2000", "U+2003", "U+200A", "U+202F", "U+205F", "U+3000"}

Remove(text, chars) == SelectSeq(text, LAMBDA c : c \notin chars)

Replace(text, chars, by) ==
    [i \in 1..Len(text) |-> IF text[i] \in chars THEN by ELSE text[i]]

\* 3. Remove invisible Unicode junk: the issue is pushed when the length
\* has changed.
RemoveUnicodeJunk(r) ==
    LET originalLength == Len(r.content)
        content1 == Replace(Remove(Remove(r.content, ZeroWidth), ControlChars),
                            UnicodeSpaces, " ")
    IN  [r EXCEPT !.content = content1,
                  !.issues = IF Len(content1) # originalLength
                             THEN Append(@, Issue("Removed invisible/control characters",
                                                  originalLength - Len(content1), ""))
                             ELSE @]

\* content.replace(/\r\n/g, '\n')
RECURSIVE CrLfToLf(_)
CrLfToLf(text) ==
    IF text = <<>> THEN <<>>
    ELSE IF StartsWith(text, <<"\r", "\n">>)
         THEN <<"\n">> \o CrLfToLf(SubSeq(text, 3, Len(text)))
    ELSE <<Head(text)>> \o CrLfToLf(Tail(text))

\* 4. Normalize line endings: the issue is pushed when the length has
\* changed.
NormalizeLineEndings(r) ==
    LET originalLength == Len(r.content)
        content1 == Replace(CrLfToLf(r.content), {"\r"}, "\n")
    IN  [r EXCEPT !.content = content1,
                  !.issues = IF Len(content1) # originalLength
                             THEN Append(@, Issue("Normalized line endings to LF", 0, ""))
                             ELSE @]

\* What String.prototype.trim removes and /\s/ matches, of the characters
\* named here.
WhiteSpace ==
    {" ", "\t", "\r", "\n", "U+00A0", "U+FEFF"} \cup UnicodeSpaces

RECURSIVE TrimStart(_)
TrimStart(text) ==
    IF text # <<>> /\ Head(text) \in WhiteSpace THEN TrimStart(Tail(text)) ELSE text

RECURSIVE TrimEnd(_)
TrimEnd(text) ==
    IF text # <<>> /\ text[Len(text)] \in WhiteSpace
    THEN TrimEnd(SubSeq(text, 1, Len(text) - 1))
    ELSE text

Trim(text) == TrimEnd(TrimStart(text))

\* 5. Strip empty lines: the first line and the lines that are not blank.
StripEmptyLines(r) ==
    LET lines == Split(r.content, <<>>)
        originalLineCount == Len(lines)
        kept == {i \in 1..Len(lines) : i = 1 \/ Len(Trim(lines[i])) > 0}
        RECURSIVE Filter(_)
        Filter(i) ==
            IF i > Len(lines) THEN <<>>
            ELSE (IF i \in kept THEN <<lines[i]>> ELSE <<>>) \o Filter(i + 1)
        filteredLines == Filter(1)
    IN  [r EXCEPT !.content = Join(filteredLines),
                  !.issues = IF Len(filteredLines) # originalLineCount
                             THEN Append(@, Issue("Removed empty lines",
                                                  originalLineCount - Len(filteredLines), ""))
                             ELSE @]

\* parseCSVRow(row, delimiter): a doubled quote inside quotes is one quote,
\* any other quote toggles inQuotes, the delimiter outside quotes ends the
\* cell.
RECURSIVE ParseCells(_, _, _, _)
ParseCells(row, delimiter, current, inQuotes) ==
    IF row = <<>> THEN <<current>>
    ELSE IF Head(row) = "\""
         THEN IF inQuotes /\ Len(row) >= 2 /\ row[2] = "\""
              THEN ParseCells(SubSeq(row, 3, Len(row)), delimiter,
                              Append(current, "\""), inQuotes)
              ELSE ParseCells(Tail(row), delimiter, current, ~inQuotes)
    ELSE IF Head(row) = delimiter /\ ~inQuotes
         THEN <<current>> \o ParseCells(Tail(row), delimiter, <<>>, inQuotes)
    ELSE ParseCells(Tail(row), delimiter, Append(current, Head(row)), inQuotes)

ParseCSVRow(row, delimiter) == ParseCells(row, delimiter, <<>>, FALSE)

\* sanitized.replace(/\s+/g, ' ')
RECURSIVE Collapse(_)
Collapse(text) ==
    IF text = <<>> THEN <<>>
    ELSE IF Head(text) \in WhiteSpace THEN <<" ">> \o Collapse(TrimStart(text))
    ELSE <<Head(text)>> \o Collapse(Tail(text))

Wrapped(text, quote) == StartsWith(text, <<quote>>) /\ EndsWith(text, <<quote>>)

\* headerCells.map(cell => ...)
SanitizeCell(cell) ==
    LET trimmed == Trim(cell)
        unwrapped ==
            IF Wrapped(trimmed, "\"") \/ Wrapped(trimmed, "'")
            THEN SubSeq(trimmed, 2, Len(trimmed) - 1)
            ELSE trimmed
    IN  Trim(Collapse(Replace(unwrapped, {"\n", "\r", "\t"}, " ")))

\* cell.replace(/"/g, '""')
RECURSIVE DoubleQuotes(_)
DoubleQuotes(text) ==
    IF text = <<>> THEN <<>>
    ELSE (IF Head(text) = "\"" THEN <<"\"", "\"">> ELSE <<Head(text)>>)
             \o DoubleQuotes(Tail(text))

Includes(text, c) == \E i \in 1..Len(text) : text[i] = c

\* Quote cells that contain the delimiter or quotes.
Requote(cell, delimiter) ==
    IF Includes(cell, delimiter) \/ Includes(cell, "\"") \/ Includes(cell, "\n")
    THEN <<"\"">> \o DoubleQuotes(cell) \o <<"\"">>
    ELSE cell

RECURSIVE JoinWith(_, _)
JoinWith(cells, delimiter) ==
    IF Len(cells) = 1 THEN Head(cells)
    ELSE Head(cells) \o <<delimiter>> \o JoinWith(Tail(cells), delimiter)

\* 6. Sanitize headers: the first line is rebuilt from its sanitized cells.
SanitizeHeaders(r) ==
    LET lines == Split(r.content, <<>>)
        originalHeader == lines[1]
        headerCells == ParseCSVRow(originalHeader, r.delimiter)
        sanitizedCells == [i \in 1..Len(headerCells) |-> SanitizeCell(headerCells[i])]
        sanitizedHeader ==
            JoinWith([i \in 1..Len(sanitizedCells) |->
                         Requote(sanitizedCells[i], r.delimiter)], r.delimiter)
    IN  IF sanitizedHeader # originalHeader
        THEN [r EXCEPT !.content = Join([lines EXCEPT ![1] = sanitizedHeader]),
                       !.issues = Append(@, Issue("Sanitized header row", 0, ""))]
        ELSE r

RunPass(pass, r) ==
    CASE pass = "trimBOM" -> TrimBOM(r)
      [] pass = "autoDetectDelimiter" -> AutoDetectDelimiter(r)
      [] pass = "removeUnicodeJunk" -> RemoveUnicodeJunk(r)
      [] pass = "normalizeLineEndings" -> NormalizeLineEndings(r)
      [] pass = "stripEmptyLines" -> StripEmptyLines(r)
      [] pass = "sanitizeHeaders" -> SanitizeHeaders(r)

\* The passes that have run, each with what it was given and what it left.
RECURSIVE PassesRun(_, _, _)
PassesRun(cfg, r, i) ==
    IF i > Len(Passes) THEN <<>>
    ELSE IF cfg[Passes[i]]
         THEN LET after == RunPass(Passes[i], r)
              IN  <<[pass |-> i, before |-> r, after |-> after]>>
                      \o PassesRun(cfg, after, i + 1)
    ELSE PassesRun(cfg, r, i + 1)

\* normalizeCSV(csvContent): the content as given when the layer is not
\* enabled, what the last pass left otherwise.
NormalizeCSVResult(cfg, text) ==
    LET given == [content |-> text, delimiter |-> DefaultDelimiter, issues |-> <<>>]
        run == PassesRun(cfg, given, 1)
    IN  IF ~cfg.enabled \/ run = <<>> THEN given ELSE run[Len(run)].after

NormalizeInit ==
    /\ config = [chunkSize |-> 1, concurrency |-> 1, waitBetweenChunks |-> 0]
    /\ EngineInit
    /\ sessions = 0
    /\ metricsEnabled = FALSE
    /\ uniqueErrors = {}
    /\ errorPatternCounts = NoCounts
    /\ pendingAudit = 0
    /\ occurrences = NoCounts
    /\ fullEvents = NoCounts
    /\ repeatEvents = NoCounts
    /\ earlierKeys = {}
    /\ DelimiterIdle /\ RowIdle /\ PanelIdle /\ RegistryIdle /\ ExportIdle
    /\ reconciled = <<>>
    /\ SnapshotIdle
    /\ csvNormalization \in Normalizations
    /\ csvContent \in CsvContents
    /\ normalized = NotNormalized
    /\ passLog = <<>>

\* const normalized = this.normalizeCSV(csvContent)
NormalizeCSV ==
    /\ normalized = NotNormalized
    /\ normalized' = NormalizeCSVResult(csvNormalization, csvContent)
    /\ passLog' = IF csvNormalization.enabled
                  THEN PassesRun(csvNormalization, [NotNormalized EXCEPT !.content = csvContent,
                                                                    !.delimiter = DefaultDelimiter], 1)
                  ELSE <<>>
    /\ UNCHANGED <<engineVars, sessions, samplerVars, delimiterVars, rowVars, panelVars,
                   registryVars, exportVars, orderVars, snapshotVars, csvNormalization,
                   csvContent>>

NormalizeNext == NormalizeCSV

NormalizeSpec == NormalizeInit /\ [][NormalizeNext]_vars

\* C37: each normalization pass that is enabled and changes the content
\* appends exactly one entry to issues, a pass that leaves the content
\* unchanged appends none, and the entries are in the order of the passes.
Appended(step) == Len(step.after.issues) - Len(step.before.issues)

C37_OneEntryPerChangingPass ==
    /\ \A i \in 1..Len(passLog) :
           /\ Appended(passLog[i]) = IF passLog[i].after.content # passLog[i].before.content
                                     THEN 1 ELSE 0
           /\ SubSeq(passLog[i].after.issues, 1, Len(passLog[i].before.issues))
                  = passLog[i].before.issues
    /\ \A i, j \in 1..Len(passLog) : i < j => passLog[i].pass < passLog[j].pass
    /\ passLog # <<>> => normalized.issues = passLog[Len(passLog)].after.issues

DelimiterRange == {Delimiters[i] : i \in 1..Len(Delimiters)}

\* The candidates whose score no other candidate exceeds.
Highest(lines) ==
    {d \in DelimiterRange :
        \A e \in DelimiterRange : ~Greater(Score(lines, e), Score(lines, d))}

\* C12: detectDelimiter returns the candidate whose score is strictly the
\* highest, and returns comma when two or more candidates tie for the
\* highest score or no candidate occurs at all.
C12_HighestOrComma ==
    detected # "none" =>
        LET highest == Highest(FirstLines(content))
        IN  detected = IF Cardinality(highest) = 1
                       THEN CHOOSE d \in highest : TRUE
                       ELSE ","

\* ------------------------------------------------------------- the row pipeline
\* One record and what each user-supplied function does when it is called on
\* it.  A record has the fields of RowFields, in header order; a value is the
\* list of the transforms applied to the raw value so far.
RowFields == <<"name", "age">>

FieldSet == {RowFields[i] : i \in 1..Len(RowFields)}

RawRow == [f \in FieldSet |-> <<>>]

\* A hook call, for the history of calls made on the record.
Call(stage, who, field) == [stage |-> stage, who |-> who, field |-> field]

\* What a function of config.filters does: return a truthy or a falsy
\* value, or throw.
FilterFnOutcomes == {"truthy", "falsy", "throws"}

\* What a filter hook of a row plugin does: return {passed: true},
\* {passed: false, reason}, {passed: false}, true, false, nothing, or throw.
FilterHookOutcomes ==
    {"passedTrue", "passedFalseReason", "passedFalse", "true", "false",
     "nothing", "throws"}

\* if (result ...): the hook's result is truthy.
Truthy(o) == o \notin {"false", "nothing", "throws"}

\* typeof result === 'boolean' && !result
BooleanFalse(o) == o = "false"

\* `${field}=${value}`
FilterReason(field, value) == <<field, "=", value>>

\* result.reason || `Plugin '${plugin.name}' filtered row`
PluginFilterReason(i, o) ==
    IF o = "passedFalseReason" THEN <<"reason of plugin", i>>
    ELSE <<"Plugin", i, "filtered row">>

\* `Plugin filter error: ${err.message}`
PluginFilterError(i) == <<"Plugin filter error:", i>>

Passed(log) == [kind |-> "returned", passed |-> TRUE, reason |-> <<>>, log |-> log]

Vetoed(reason, log) ==
    [kind |-> "returned", passed |-> FALSE, reason |-> reason, log |-> log]

ThrownOut(log) == [kind |-> "thrown", passed |-> FALSE, reason |-> <<>>, log |-> log]

\* The loop over activePlugins.row in filterRow, from plugin i on.
RECURSIVE PluginFilters(_, _, _)
PluginFilters(plugins, i, log) ==
    IF i > Len(plugins) THEN Passed(log)
    ELSE IF plugins[i].hook # "filter" THEN PluginFilters(plugins, i + 1, log)
    ELSE LET o == plugins[i].outcome
             log1 == Append(log, Call("filter", <<"row plugin", i>>, "-"))
         IN  IF o = "throws" THEN Vetoed(PluginFilterError(i), log1)
             ELSE IF Truthy(o) /\ o # "passedTrue"
                  THEN Vetoed(PluginFilterReason(i, o), log1)
             ELSE IF BooleanFalse(o) THEN Vetoed(PluginFilterReason(i, o), log1)
             ELSE PluginFilters(plugins, i + 1, log1)

\* The loop over Object.entries(config.filters), from entry i on: the first
\* function returning a falsy value vetoes the record; a function that
\* throws ends filterRow with its fault.
RECURSIVE BuiltInFilters(_, _, _, _)
BuiltInFilters(filters, row, i, log) ==
    IF i > Len(filters) THEN Passed(log)
    ELSE LET field == filters[i].field
             log1 == Append(log, Call("filter", "config.filters", field))
         IN  IF filters[i].outcome = "throws" THEN ThrownOut(log1)
             ELSE IF filters[i].outcome = "falsy"
                  THEN Vetoed(FilterReason(field, row[field]), log1)
             ELSE BuiltInFilters(filters, row, i + 1, log1)

FilterRow(row, cfg) ==
    LET builtIn == BuiltInFilters(cfg.filters, row, 1, <<>>)
    IN  IF builtIn.kind = "thrown" \/ ~builtIn.passed THEN builtIn
        ELSE PluginFilters(cfg.rowPlugins, 1, builtIn.log)

\* The keys a transformed record can have: the source fields and the
\* destination name a field mapping can give.
Keys == FieldSet \cup {"fullName"}

NoMapping == [f \in FieldSet |-> ""]

NoTransformers == [k \in Keys |-> "none"]

\* What a transformer of the active mapping does: return a value, or throw.
TransformerOutcomes == {"returns", "throws"}

\* What a transform hook does: return a value, return nothing, or throw.
TransformHookOutcomes == {"returns", "nothing", "throws"}

\* The field mapping ignored: every value stays under its source key.
MappedKeyIsSourceKey(fieldMapping, key) == key

\* const mappedKey = this.activeMapping.fieldMapping[key] || key
MappedKey(fieldMapping, key) ==
    IF fieldMapping[key] # "" THEN fieldMapping[key] ELSE key

ValueOf(kind, value, log) == [kind |-> kind, value |-> value, log |-> log]

\* The catch block with the value lost: a fault leaves the value undefined.
CaughtTransformClears(value) == <<"undefined">>

\* try { value = plugin.transform(...) } catch (err) { this.log(...) }: the
\* assignment did not happen.
CaughtTransform(value) == value

\* The forEach over activePlugins.field for one value, from plugin i on.  A
\* hook that returns nothing leaves the value undefined; a hook that throws
\* is logged and the value stays what it was.
RECURSIVE FieldTransforms(_, _, _, _, _)
FieldTransforms(plugins, i, mappedKey, value, log) ==
    IF i > Len(plugins) THEN ValueOf("returned", value, log)
    ELSE IF plugins[i].hook # "transform"
         THEN FieldTransforms(plugins, i + 1, mappedKey, value, log)
    ELSE LET o == plugins[i].outcome
             log1 == Append(log, Call("transform", <<"field plugin", i>>, mappedKey))
             value1 == CASE o = "returns" -> Append(value, <<"field plugin", i>>)
                         [] o = "nothing" -> <<"undefined">>
                         [] OTHER -> CaughtTransform(value)
         IN  FieldTransforms(plugins, i + 1, mappedKey, value1, log1)

\* The body of Object.keys(row).forEach for one key: the transformer
\* registered under the mapped key, then the field plugins.
TransformField(cfg, row, key, log) ==
    LET mappedKey == MappedKey(cfg.fieldMapping, key)
        t == cfg.transformers[mappedKey]
        log1 == IF t = "none" THEN log
                ELSE Append(log, Call("transform", "transformer", mappedKey))
        value1 == IF t = "returns" THEN Append(row[key], <<"transformer", mappedKey>>)
                  ELSE row[key]
    IN  IF t = "throws" THEN ValueOf("thrown", row[key], log1)
        ELSE FieldTransforms(cfg.fieldPlugins, 1, mappedKey, value1, log1)

RowOf(kind, row, log) == [kind |-> kind, row |-> row, log |-> log]

\* transformed[mappedKey] = value: the record with one more key.
WithKey(rec, key, value) ==
    [k \in DOMAIN rec \cup {key} |-> IF k = key THEN value ELSE rec[k]]

EmptyRecord == [k \in {} |-> <<>>]

\* Object.keys(row).forEach, from field i on.
RECURSIVE TransformFields(_, _, _, _, _)
TransformFields(cfg, row, i, transformed, log) ==
    IF i > Len(RowFields) THEN RowOf("returned", transformed, log)
    ELSE LET key == RowFields[i]
             v == TransformField(cfg, row, key, log)
         IN  IF v.kind = "thrown" THEN RowOf("thrown", transformed, v.log)
             ELSE TransformFields(cfg, row, i + 1,
                      WithKey(transformed, MappedKey(cfg.fieldMapping, key), v.value),
                      v.log)

\* The forEach over activePlugins.row in transformRow, from plugin i on:
\* plugin.transform(finalTransformed, ...) || finalTransformed, inside try.
RECURSIVE RowTransforms(_, _, _, _)
RowTransforms(plugins, i, finalTransformed, log) ==
    IF i > Len(plugins) THEN RowOf("returned", finalTransformed, log)
    ELSE IF plugins[i].hook # "transform"
         THEN RowTransforms(plugins, i + 1, finalTransformed, log)
    ELSE LET o == plugins[i].outcome
             log1 == Append(log, Call("transform", <<"row plugin", i>>, "-"))
             next == IF o = "returns"
                     THEN [k \in DOMAIN finalTransformed |->
                              Append(finalTransformed[k], <<"row plugin", i>>)]
                     ELSE finalTransformed
         IN  RowTransforms(plugins, i + 1, next, log1)

TransformRow(row, cfg, log) ==
    LET fields == TransformFields(cfg, row, 1, EmptyRecord, log)
    IN  IF fields.kind = "thrown" THEN fields
        ELSE RowTransforms(cfg.rowPlugins, 1, fields.row, fields.log)

\* What a validator function or a validate hook does: return
\* {isValid: true}, {isValid: false, error}, {isValid: false, errors: [..]},
\* {isValid: false}, true, false, nothing, or throw.
ValidateOutcomes ==
    {"valid", "invalidError", "invalidErrors", "invalidBare", "true", "false",
     "nothing", "throws"}

\* What a rule [fn, msg] of an object validator does: fn returns a truthy
\* value, a falsy one (the rule having a message or none), or throws.
RuleOutcomes == {"truthy", "falsy", "falsyNoMsg", "throws"}

\* The entries of result.errors when a validator answers with a list.
ErrorsOf(who) == << <<"first error of", who>>, <<"second error of", who>> >>

\* result && !result.isValid
NotValid(o) == Truthy(o) /\ o # "valid"

\* One evaluation of a rule or hook in validateRow and what the code makes
\* of it: nothing ("pass"), an error message ("fail"), or a fault that
\* leaves validateRow ("throw").
Check(who, field, verdict, msg) ==
    [who |-> who, field |-> field, verdict |-> verdict, msg |-> msg]

\* 1. the validator function: result.error || 'Validation failed', and
\* `Validator error: ${err.message}` when it throws.
FunctionChecks(o) ==
    << Check("validator", "-",
             IF o = "throws" \/ NotValid(o) THEN "fail" ELSE "pass",
             CASE o = "throws" -> <<"Validator error:", "validator">>
               [] o = "invalidError" -> <<"error of", "validator">>
               [] OTHER -> <<"Validation failed">>) >>

\* 2. the rules of one field of an object validator: msg || `Invalid ${field}`.
RuleChecks(field, rules) ==
    [j \in 1..Len(rules) |->
        Check(<<"rule", j>>, field,
              CASE rules[j] = "truthy" -> "pass"
                [] rules[j] = "throws" -> "throw"
                [] OTHER -> "fail",
              IF rules[j] = "falsyNoMsg" THEN <<"Invalid", field>>
              ELSE <<"msg of rule", field, j>>)]

\* Object.entries(validator), each field's rules in list order.
RECURSIVE ObjectChecks(_)
ObjectChecks(entries) ==
    IF entries = <<>> THEN <<>>
    ELSE RuleChecks(Head(entries).field, Head(entries).rules)
         \o ObjectChecks(Tail(entries))

\* 3. the validate hook of field plugin i on one field.
FieldPluginCheck(i, o, field) ==
    Check(<<"field plugin", i>>, field,
          IF o = "throws" \/ NotValid(o) \/ BooleanFalse(o) THEN "fail" ELSE "pass",
          CASE o = "throws" -> <<"Plugin validation error:", i>>
            [] o = "invalidError" -> <<"error of field plugin", i, field>>
            [] OTHER -> <<"Plugin", i, "validation failed for", field>>)

\* for (const plugin of activePlugins.field) for (const [field, value] of
\* Object.entries(row))
RECURSIVE FieldPluginChecks(_, _, _)
FieldPluginChecks(plugins, i, fields) ==
    IF i > Len(plugins) THEN <<>>
    ELSE (IF plugins[i].hook = "validate"
          THEN [f \in 1..Len(fields) |->
                   FieldPluginCheck(i, plugins[i].outcome, fields[f])]
          ELSE <<>>)
         \o FieldPluginChecks(plugins, i + 1, fields)

\* 4. the validate hook of row plugin i: result.error ||
\* result.errors.join('; ') || `Plugin '${plugin.name}' row validation failed`.
RowPluginCheck(i, o) ==
    Check(<<"row plugin", i>>, "-",
          IF o = "throws" \/ NotValid(o) \/ BooleanFalse(o) THEN "fail" ELSE "pass",
          CASE o = "throws" -> <<"Plugin validation error:", i>>
            [] o = "invalidError" -> <<"error of row plugin", i>>
            [] o = "invalidErrors" -> <<"errors of row plugin joined by ;", i>>
            [] OTHER -> <<"Plugin", i, "row validation failed">>)

RECURSIVE RowPluginChecks(_, _)
RowPluginChecks(plugins, i) ==
    IF i > Len(plugins) THEN <<>>
    ELSE (IF plugins[i].hook = "validate"
          THEN <<RowPluginCheck(i, plugins[i].outcome)>>
          ELSE <<>>)
         \o RowPluginChecks(plugins, i + 1)

\* The evaluations validateRow would make on the record if none of them
\* ended it, in the order it makes them.
Checks(cfg, fields) ==
    (CASE cfg.validate.kind = "function" -> FunctionChecks(cfg.validate.outcome)
       [] cfg.validate.kind = "object" -> ObjectChecks(cfg.validate.entries)
       [] OTHER -> <<>>)
    \o FieldPluginChecks(cfg.fieldPlugins, 1, fields)
    \o RowPluginChecks(cfg.rowPlugins, 1)

\* errors.join(' | ')
RECURSIVE JoinErrors(_)
JoinErrors(errors) ==
    IF Len(errors) = 1 THEN <<Head(errors)>>
    ELSE <<Head(errors), " | ">> \o JoinErrors(Tail(errors))

Validation(kind, isValid, error, errors, log) ==
    [kind |-> kind, isValid |-> isValid, error |-> error, errors |-> errors,
     log |-> log]

\* The evaluations from check i on.  A failure is pushed when collectAll
\* is set and returned at once when it is not; at the end the collected
\* errors are returned joined, or {isValid: true}.
RECURSIVE Evaluate(_, _, _, _, _)
Evaluate(checks, i, collectAll, errors, log) ==
    IF i > Len(checks)
    THEN IF Len(errors) > 0
         THEN Validation("returned", FALSE, JoinErrors(errors), errors, log)
         ELSE Validation("returned", TRUE, <<>>, <<>>, log)
    ELSE LET c == checks[i]
             log1 == Append(log, Call("validate", c.who, c.field))
         IN  CASE c.verdict = "throw" -> Validation("thrown", FALSE, <<>>, errors, log1)
               [] c.verdict = "fail" /\ ~collectAll ->
                      Validation("returned", FALSE, <<c.msg>>, <<>>, log1)
               [] c.verdict = "fail" ->
                      Evaluate(checks, i + 1, collectAll, Append(errors, c.msg), log1)
               [] OTHER -> Evaluate(checks, i + 1, collectAll, errors, log1)

\* The keys of the transformed record, in insertion order.
KeysOf(cfg) == [i \in 1..Len(RowFields) |-> MappedKey(cfg.fieldMapping, RowFields[i])]

ValidateRow(cfg, collectAll, log) ==
    Evaluate(Checks(cfg, KeysOf(cfg)), 1, collectAll, <<>>, log)

\* ------------------------------------------------------------- one record through processRows
MaxHooks == 2

SeqsOfLen(S, n) == [1..n -> S]

\* The entries of config.filters: one function per field.
FilterConfigs(n) ==
    {f \in SeqsOfLen([field : FieldSet, outcome : FilterFnOutcomes], n) :
        \A i, j \in 1..n : i # j => f[i].field # f[j].field}

FieldMappings == {NoMapping, [NoMapping EXCEPT !["name"] = "fullName"]}

Transformers == [Keys -> {"none"} \cup TransformerOutcomes]

\* The active mapping: its field mapping and its transformers.
MappingConfigs(n) ==
    {m \in [fieldMapping : FieldMappings, transformers : Transformers] :
        Cardinality({f \in FieldSet : m.fieldMapping[f] # ""})
        + Cardinality({k \in Keys : m.transformers[k] # "none"}) = n}

\* A field plugin with one hook, doing the same on every field.
FieldPlugins ==
    [hook : {"transform"}, outcome : TransformHookOutcomes]
    \cup [hook : {"validate"}, outcome : ValidateOutcomes \ {"invalidErrors"}]

\* A row plugin with one hook.
RowPlugins ==
    [hook : {"filter"}, outcome : FilterHookOutcomes]
    \cup [hook : {"transform"}, outcome : TransformHookOutcomes]
    \cup [hook : {"validate"}, outcome : ValidateOutcomes]

NoValidator == [kind |-> "none", outcome |-> "valid", entries |-> <<>>]

FunctionValidators ==
    {[NoValidator EXCEPT !.kind = "function", !.outcome = o] : o \in ValidateOutcomes}

Entry(field, rules) == [field |-> field, rules |-> rules]

\* Object validators with n rules in all: one field with n rules, or two
\* fields sharing them.
ObjectValidators(n) ==
    {[NoValidator EXCEPT !.kind = "object", !.entries = <<Entry(f, r)>>] :
        f \in FieldSet, r \in SeqsOfLen(RuleOutcomes, n)}
    \cup UNION {
        {[NoValidator EXCEPT !.kind = "object",
                             !.entries = <<Entry(fg[1], r), Entry(fg[2], q)>>] :
            fg \in {p \in FieldSet \X FieldSet : p[1] # p[2]},
            r \in SeqsOfLen(RuleOutcomes, k), q \in SeqsOfLen(RuleOutcomes, n - k)}
        : k \in 1..(n - 1)}

ValidatorConfigs(n) ==
    IF n = 0 THEN {NoValidator}
    ELSE ObjectValidators(n) \cup (IF n = 1 THEN FunctionValidators ELSE {})

\* How MaxHooks user-supplied functions can be spread over the five places
\* a configuration has for them.
Splits ==
    {sp \in [1..5 -> 0..MaxHooks] : sp[1] + sp[2] + sp[3] + sp[4] + sp[5] <= MaxHooks}

\* A configuration with its user-supplied functions spread as sp says.
IsRowConfigFor(cfg, sp) ==
    \E f \in FilterConfigs(sp[1]), m \in MappingConfigs(sp[2]),
       fp \in SeqsOfLen(FieldPlugins, sp[3]), rp \in SeqsOfLen(RowPlugins, sp[4]),
       v \in ValidatorConfigs(sp[5]), c \in BOOLEAN :
        cfg = [filters |-> f, fieldMapping |-> m.fieldMapping,
               transformers |-> m.transformers, fieldPlugins |-> fp,
               rowPlugins |-> rp, validate |-> v, collectAllErrors |-> c]

\* The test of the filter result lost: no record is skipped.
IsFilteredNever(filterResult) == FALSE

\* if (!filterResult.passed) { ...; continue; }
IsFiltered(filterResult) == ~filterResult.passed

\* What the body of the for loop of processRows computes for the record:
\* filterRow, and if the record passed transformRow and validateRow.  A
\* fault that leaves one of the three leaves processRows.
Pipeline(cfg) ==
    LET filterResult == FilterRow(RawRow, cfg)
        transformed == TransformRow(RawRow, cfg, filterResult.log)
        validation == ValidateRow(cfg, cfg.collectAllErrors, transformed.log)
        none == Validation("none", FALSE, <<>>, <<>>, <<>>)
        result(outcome, row, v, log) ==
            [outcome |-> outcome, filterResult |-> filterResult, row |-> row,
             validation |-> v, log |-> log]
    IN  IF filterResult.kind = "thrown"
        THEN result("thrown", RawRow, none, filterResult.log)
        ELSE IF IsFiltered(filterResult)
        THEN result("filtered", RawRow, none, filterResult.log)
        ELSE IF transformed.kind = "thrown"
        THEN result("thrown", RawRow, none, transformed.log)
        ELSE IF validation.kind = "thrown"
        THEN result("thrown", transformed.row, validation, validation.log)
        ELSE result(IF validation.isValid THEN "valid" ELSE "invalid",
                    transformed.row, validation, validation.log)

\* The iteration left by a fault: only the line cursor has moved.
RowAborted(ctx) ==
    [ctx EXCEPT !.state.currentCsvLine = @ + 1,
                !.lineLog = Append(@, ctx.state.currentCsvLine)]

RowInit ==
    /\ config = [chunkSize |-> 1, concurrency |-> 1, waitBetweenChunks |-> 0]
    /\ state \in {[InitialState EXCEPT !.isProcessing = TRUE, !.selectedFile = TRUE,
                                       !.mode = m] : m \in Modes}
    /\ rowBuffer = <<>>
    /\ headersChecked = TRUE
    /\ parser = "paused"
    /\ pc = "parsing"
    /\ calls = <<>>
    /\ lineLog = <<>>
    /\ validIds = {}
    /\ sentLog = <<>>
    /\ endedBy = "none"
    /\ sessions = 1
    /\ metricsEnabled = FALSE
    /\ uniqueErrors = {}
    /\ errorPatternCounts = NoCounts
    /\ pendingAudit = 0
    /\ occurrences = NoCounts
    /\ fullEvents = NoCounts
    /\ repeatEvents = NoCounts
    /\ earlierKeys = {}
    /\ faultLog = <<>>
    /\ DelimiterIdle /\ PanelIdle /\ RegistryIdle /\ RestIdle
    /\ \E sp \in Splits : IsRowConfigFor(rowConfig, sp)
    /\ rowResult = NoResult

\* One iteration of the for loop of processRows, on the first record of a
\* chunk.
RowProcessed ==
    /\ rowResult.outcome = "none"
    /\ LET result == Pipeline(rowConfig)
           ctx0 == [state |-> state, rowBuffer |-> rowBuffer,
                    lineLog |-> lineLog, validIds |-> validIds]
           ctx == IF result.outcome = "thrown" THEN RowAborted(ctx0)
                  ELSE ProcessRow(ctx0, result.outcome)
       IN  /\ rowResult' = result
           /\ state' = ctx.state
           /\ rowBuffer' = ctx.rowBuffer
           /\ lineLog' = ctx.lineLog
           /\ validIds' = ctx.validIds
    /\ UNCHANGED <<config, headersChecked, parser, pc, calls, sentLog, endedBy, faultLog,
                   sessions, samplerVars, delimiterVars, rowConfig, panelVars,
                   registryVars, restVars>>

RowNext == RowProcessed

RowSpec == RowInit /\ [][RowNext]_vars

\* C11: with telemetry enabled, a key that has occurred n times in the
\* session has had exactly floor(n / 10) 'pattern repeated' events posted,
\* one at each occurrence whose number is a multiple of 10.
C11_RepeatEveryTenth ==
    metricsEnabled =>
        \A k \in AllKeys : repeatEvents[k] = occurrences[k] \div 10

\* validateRow has run on the record.
Validated == rowResult.outcome \in {"valid", "invalid", "thrown"}
             /\ rowResult.validation.kind # "none"

\* What validateRow makes of the same record under the other collection mode.
OtherMode == ValidateRow(rowConfig, ~rowConfig.collectAllErrors, <<>>)

\* The rules and hooks that fail on the record.
Failing(cfg) ==
    LET checks == Checks(cfg, KeysOf(cfg))
    IN  {i \in 1..Len(checks) : checks[i].verdict # "pass"}

\* C13: validateRow returns the same isValid verdict with collectAllErrors
\* true as with collectAllErrors false, for every record and every
\* configuration of validator and plugins; when at most one rule fails the
\* error message is the same too.
C13_SameVerdictInBothModes ==
    Validated =>
        /\ rowResult.validation.kind = OtherMode.kind
        /\ rowResult.validation.isValid = OtherMode.isValid
        /\ Cardinality(Failing(rowConfig)) <= 1 =>
               rowResult.validation.error = OtherMode.error

\* The messages of the plugin hooks that fail on the record, in the order
\* validateRow runs them.
PluginMessages(cfg) ==
    LET checks == FieldPluginChecks(cfg.fieldPlugins, 1, KeysOf(cfg))
                  \o RowPluginChecks(cfg.rowPlugins, 1)
        failed == SelectSeq(checks, LAMBDA c : c.verdict = "fail")
    IN  [i \in 1..Len(failed) |-> failed[i].msg]

\* C14: with collectAllErrors enabled, when the validator function returns
\* {isValid: false, errors: [m1, ..., mk]}, the collected error list is
\* m1, ..., mk followed by the messages of the failing plugins, and the
\* error string is that list joined by " | ".
C14_ValidatorErrorsSpliced ==
    (/\ Validated
     /\ rowConfig.collectAllErrors
     /\ rowConfig.validate.kind = "function"
     /\ rowConfig.validate.outcome = "invalidErrors")
    => LET expected == ErrorsOf("validator") \o PluginMessages(rowConfig)
       IN  /\ rowResult.validation.kind = "returned"
           /\ ~rowResult.validation.isValid
           /\ rowResult.validation.errors = expected
           /\ rowResult.validation.error = JoinErrors(expected)

\* The rule and hook evaluations validateRow has made on the record.
Evaluated == SelectSeq(rowResult.validation.log, LAMBDA c : c.stage = "validate")

\* C15: with collectAllErrors disabled, validateRow returns exactly the
\* message of the first failing rule in the fixed order (validator function
\* or field rules, then field plugins, then row plugins) and evaluates no
\* rule after it.
C15_FirstFailureOnly ==
    LET checks == Checks(rowConfig, KeysOf(rowConfig))
        failed == {i \in 1..Len(checks) : checks[i].verdict = "fail"}
        first == CHOOSE i \in failed : \A j \in failed : i <= j
    IN  (Validated /\ ~rowConfig.collectAllErrors /\ failed # {})
        => /\ rowResult.validation.kind = "returned"
           /\ ~rowResult.validation.isValid
           /\ rowResult.validation.error = <<checks[first].msg>>
           /\ Evaluated = [i \in 1..first |-> Call("validate", checks[i].who,
                                                   checks[i].field)]

\* The stages of the hook calls made on the record, in call order.
Stages == [i \in 1..Len(rowResult.log) |-> rowResult.log[i].stage]

StageRank(stage) ==
    CASE stage = "filter" -> 1 [] stage = "transform" -> 2 [] OTHER -> 3

\* filterRow has vetoed the record.
Veto == rowResult.outcome # "none"
        /\ rowResult.filterResult.kind = "returned"
        /\ ~rowResult.filterResult.passed

NotTruthy(filters) == {i \in 1..Len(filters) : filters[i].outcome # "truthy"}

\* The configuration has built-in filters and nothing else.
OnlyBuiltInFilters(cfg) ==
    /\ Len(cfg.filters) > 0
    /\ cfg.rowPlugins = <<>> /\ cfg.fieldPlugins = <<>>
    /\ cfg.validate.kind = "none"
    /\ cfg.transformers = NoTransformers

\* C17: a record passes the built-in filters exactly when every configured
\* filter function returns a truthy value for its field's raw value;
\* otherwise it is filtered with the reason naming the first failing filter
\* in configuration order.  So in a check run with built-in filters only,
\* the record counts in successCount when it satisfies all filters and in
\* filteredCount when it fails one.
C17_BuiltInFiltersConjunction ==
    LET filters == rowConfig.filters
        failing == NotTruthy(filters)
        first == CHOOSE i \in failing : \A j \in failing : i <= j
        builtIn == BuiltInFilters(filters, RawRow, 1, <<>>)
    IN  (rowResult.outcome # "none" /\ Len(filters) > 0) =>
            /\ failing = {} <=> (builtIn.kind = "returned" /\ builtIn.passed)
            /\ failing # {} =>
                   /\ rowResult.outcome = "filtered"
                   /\ rowResult.filterResult.reason =
                          FilterReason(filters[first].field, RawRow[filters[first].field])
            /\ (OnlyBuiltInFilters(rowConfig) /\ state.mode = "check") =>
                   /\ state.successCount = (IF failing = {} THEN 1 ELSE 0)
                   /\ state.filteredCount = (IF failing = {} THEN 0 ELSE 1)

\* The record has passed the built-in filters and met the filter plugins.
AtPluginFilters ==
    LET builtIn == BuiltInFilters(rowConfig.filters, RawRow, 1, <<>>)
    IN  rowResult.outcome # "none" /\ builtIn.kind = "returned" /\ builtIn.passed

\* C18: a record passes the row-plugin filter stage exactly when no row
\* plugin's filter hook returns {passed: false}, returns false, or throws;
\* {passed: true} and true let it through, and a thrown fault vetoes the
\* record without aborting the chunk.
C18_PluginFilterVerdicts ==
    LET plugins == rowConfig.rowPlugins
        vetoing == {i \in 1..Len(plugins) :
                       /\ plugins[i].hook = "filter"
                       /\ plugins[i].outcome \in
                              {"passedFalse", "passedFalseReason", "false", "throws"}}
    IN  AtPluginFilters =>
            /\ rowResult.filterResult.kind = "returned"
            /\ rowResult.filterResult.passed <=> vetoing = {}

\* The plugins of a list whose validate hook answers {isValid: false} or
\* false, or throws.
FailingHooks(plugins) ==
    {i \in 1..Len(plugins) :
        /\ plugins[i].hook = "validate"
        /\ plugins[i].outcome \in
               {"invalidError", "invalidErrors", "invalidBare", "false", "throws"}}

\* C19: a record fails the check of a field-plugin or row-plugin validate
\* hook exactly when the hook returns {isValid: false}, returns false, or
\* throws; a hook returning {isValid: true} or true contributes no error,
\* in either collection mode.  With no validator configured: the record is
\* valid exactly when no hook fails, and with collectAllErrors the list has
\* one message per failing evaluation (a field plugin is evaluated on each
\* field of the record).
C19_ValidateHookVerdicts ==
    LET field == FailingHooks(rowConfig.fieldPlugins)
        row == FailingHooks(rowConfig.rowPlugins)
    IN  (Validated /\ rowConfig.validate.kind = "none") =>
            /\ rowResult.validation.kind = "returned"
            /\ rowResult.validation.isValid <=> (field = {} /\ row = {})
            /\ rowConfig.collectAllErrors =>
                   Len(rowResult.validation.errors)
                       = Cardinality(field) * Len(RowFields) + Cardinality(row)

\* transformRow has run on the record and returned.
Transformed == rowResult.outcome \in {"valid", "invalid"}
               \/ (rowResult.outcome = "thrown" /\ rowResult.validation.kind = "thrown")

TransformPlugins(plugins) == {i \in 1..Len(plugins) : plugins[i].hook = "transform"}

\* The transform hooks of a list that return a value, as a sequence of
\* the marks they leave on it.
Marks(plugins, kind) ==
    LET idx == SelectSeq([i \in 1..Len(plugins) |-> i],
                         LAMBDA i : plugins[i].hook = "transform"
                                    /\ plugins[i].outcome = "returns")
    IN  [n \in 1..Len(idx) |-> <<kind, idx[n]>>]

\* A fault was thrown by a function that is not a plugin hook.
BuiltInFault(cfg) ==
    \/ \E i \in 1..Len(cfg.filters) : cfg.filters[i].outcome = "throws"
    \/ \E k \in Keys : cfg.transformers[k] = "throws"
    \/ \E i \in 1..Len(cfg.validate.entries) :
           \E j \in 1..Len(cfg.validate.entries[i].rules) :
               cfg.validate.entries[i].rules[j] = "throws"

Mapped(cfg) == {f \in FieldSet : cfg.fieldMapping[f] # ""}

\* The keys transformers were called for, in call order.
TransformerCalls ==
    LET c == SelectSeq(rowResult.log, LAMBDA x : x.who = "transformer")
    IN  [i \in 1..Len(c) |-> c[i].field]

FaultsOf(log, kind) == Cardinality({i \in 1..Len(log) : log[i] = kind})

\* C22: a session logs the missing-required-columns fault at most once, and
\* only in the step that handles its first chunk; that step adds exactly 1
\* to errorCount for it (next to 1 for unknown columns, if any, and 1 for
\* each invalid record of the chunk), goes on to run the records of the
\* chunk through the row loop and leaves the session processing.
C22_OneMissingColumnsFault ==
    [][LET raised == FaultsOf(faultLog', "missingColumns") > FaultsOf(faultLog, "missingColumns")
           unknown == FaultsOf(faultLog', "unknownColumns") - FaultsOf(faultLog, "unknownColumns")
           records == Len(lineLog') - Len(lineLog)
           invalid == records - (state'.filteredCount - state.filteredCount)
                              - (Cardinality(validIds') - Cardinality(validIds))
       IN  /\ FaultsOf(faultLog', "missingColumns") <= 1
           /\ raised =>
                 /\ ~headersChecked /\ headersChecked'
                 /\ sessions' = sessions
                 /\ state'.errorCount = state.errorCount + 1 + unknown + invalid
                 /\ state'.totalCount = state.totalCount + invalid
                        + (IF state.mode = "check" THEN Cardinality(validIds') - Cardinality(validIds)
                           ELSE 0)
                 /\ state'.isProcessing
                 /\ pc' \in {"burst", "resuming"}
           /\ (headersChecked /\ sessions' = sessions) =>
                 FaultsOf(faultLog', "missingColumns") = FaultsOf(faultLog, "missingColumns")]_vars

\* A completed import of a file that lacks a required column: the fault is
\* the only error, and all its records were valid and went to the sink.
C22_Witness ==
    /\ pc = "idle" /\ endedBy = "complete" /\ state.mode = "import"
    /\ faultLog = <<"missingColumns">>
    /\ state.errorCount = 1
    /\ Len(lineLog) >= 2
    /\ Cardinality(validIds) = Len(lineLog)
    /\ state.successCount = Len(lineLog)

\* C23: the step that logs a structural-parse fault adds 1 to errorCount
\* and leaves the session processing with the tokenizer still delivering,
\* so that later chunks are processed.
C23_ParseFaultCountedNotFinal ==
    [][FaultsOf(faultLog', "parsingError") > FaultsOf(faultLog, "parsingError") =>
           /\ state'.errorCount = state.errorCount + 1
           /\ state'.isProcessing
           /\ parser' # "ended"]_vars

\* C24: every session that starts is finished, and finished once: from
\* every state with isProcessing set a state with isProcessing clear is
\* reached, and the callback that finished a session is recorded once
\* between two starts.
C24_EverySessionFinishesOnce ==
    /\ [](state.isProcessing => <>(~state.isProcessing))
    /\ [][endedBy' # endedBy => (endedBy = "none" \/ endedBy' = "none")]_vars

\* C25: runs do not overlap.  isProcessing is set exactly while callbacks
\* of a run are outstanding; with it clear no sink call is in flight and
\* the tokenizer delivers nothing; a run starts (and resets the session)
\* only with isProcessing clear and a file selected; and while a run is
\* processing no step takes the counters or the line cursor back.
C25_RunsNeverOverlap ==
    /\ [](state.isProcessing <=> pc # "idle")
    /\ [](~state.isProcessing => InFlight(calls) = 0 /\ parser \in {"none", "ended"})
    /\ [][sessions' # sessions => ~state.isProcessing /\ state.selectedFile]_vars
    /\ [][state.isProcessing /\ sessions' = sessions =>
             /\ state'.successCount >= state.successCount
             /\ state'.errorCount >= state.errorCount
             /\ state'.filteredCount >= state.filteredCount
             /\ state'.totalCount >= state.totalCount
             /\ state'.currentCsvLine >= state.currentCsvLine
             /\ Len(lineLog') >= Len(lineLog)]_vars

\* A second run in the middle of a burst, with a file selected: a call of
\* startImport now returns at its guard.
C25_Witness ==
    /\ sessions = 2
    /\ pc = "burst" /\ InFlight(calls) >= 1
    /\ state.selectedFile /\ state.isProcessing
    /\ ~MayStart(state)

\* C26: the step that starts a run leaves the counters at 0, the buffer
\* empty, the line cursor at 2 and the three classification lists empty,
\* and no list ever holds a record classified in an earlier run.
C26_CleanStart ==
    /\ [][sessions' # sessions =>
             /\ state'.successCount = 0 /\ state'.errorCount = 0
             /\ state'.filteredCount = 0 /\ state'.totalCount = 0
             /\ rowBuffer' = <<>>
             /\ state'.currentCsvLine = 2
             /\ lists' = NoLists]_vars
    /\ [](\A l \in DOMAIN lists : "earlier" \notin lists[l])

\* C27: while a session is processing no step changes the active mapping,
\* and every record of a run is transformed with the mapping that was
\* active when the run started.
C27_MappingFixedDuringRun ==
    /\ [][(state.isProcessing /\ state'.isProcessing) => activeMapping' = activeMapping]_vars
    /\ [](mappingsUsed \subseteq {runMapping})

\* C29: with forceCheck, whenever the start button is enabled a file is
\* selected and a check run started on it since it was selected has
\* finished.
C29_StartNeedsCheck ==
    (flow.forceCheck /\ ~disabled.startBtn) => (selection # "none" /\ checked)

\* C30: with preventStartOnErrors, the step that finishes a check run
\* leaves the start button disabled exactly if errorCount is above 0, and
\* the check button enabled.
C30_CheckResultGatesStart ==
    [][(flow.preventStartOnErrors /\ state.isProcessing /\ ~state'.isProcessing
        /\ state'.mode = "check") =>
           /\ disabled'.startBtn = (state'.errorCount > 0)
           /\ ~disabled'.checkBtn]_vars

\* A check run that found an invalid record has just finished: start is
\* disabled, check is enabled.
C30_Witness ==
    /\ flow.preventStartOnErrors
    /\ pc = "idle" /\ endedBy = "complete" /\ state.mode = "check"
    /\ state.errorCount > 0 /\ state.successCount > 0
    /\ selection # "none"
    /\ disabled = [startBtn |-> TRUE, checkBtn |-> FALSE]

\* C31: telemetry does not influence the session.  Whether the metrics
\* backend is disabled, enabled and healthy, or enabled and failing on every
\* call, the engine has at every moment, and so at the end of the session,
\* the counters, the buffer, the classification lists and the batches sent
\* of its twin, which was given the same file, configuration and sink
\* results with telemetry disabled.
C31_TelemetryDoesNotInterfere ==
    /\ state = twin.state
    /\ rowBuffer = twin.rowBuffer
    /\ rows = twin.rows
    /\ sentLog = twin.sent
    /\ pc # "aborted"

\* A session with the backend enabled and failing has completed: a record
\* was refused by the validator without a message, a batch was sent and an
\* error of the sink was sampled, and posts are still outstanding.
C31_Witness ==
    /\ metricsEnabled /\ backend = "failing"
    /\ pc = "idle" /\ endedBy = "complete" /\ sessions = 1
    /\ state.mode = "import"
    /\ sentLog # <<>>
    /\ state.errorCount > 1
    /\ uniqueErrors # {}
    /\ pendingAudit > 0

\* C32: only the data types listed in resultExport are collected: a list
\* whose type is absent from resultExport is left unchanged by every step
\* of a run, in either mode.
ListOf(kind) ==
    CASE kind = "success" -> "successRows"
      [] kind = "errors" -> "errorRows"
      [] OTHER -> "filteredRows"

C32_OnlyExportedCollected ==
    [][\A kind \in ExportKinds \ resultExport : rows'[ListOf(kind)] = rows[ListOf(kind)]]_vars

\* C33: batch results are reconciled positionally.  When the sink call of
\* batch B returns a result with success count s and e errors,
\* successCount grows by s, errorCount by e (beside what sendBatch itself
\* added) and totalCount by s + e, and with 'success' exported successRows
\* grows by exactly the records of B at its first s positions, in order.
FirstOf(batch, s) == [i \in 1..(IF s < Len(batch) THEN s ELSE Len(batch)) |-> batch[i]]

C33_ReconciledPositionally ==
    [][(pc = "tail" /\ pc' = "idle") =>
          LET result == calls'[1].result
              added == SendBatch(rowBuffer, calls'[1].outcome).errorCountAdded
          IN  /\ state'.successCount = state.successCount + result.success
              /\ state'.errorCount = state.errorCount + added + result.errors
              /\ state'.totalCount = state.totalCount + result.success + result.errors
              /\ "success" \in resultExport =>
                     rows'.successRows = rows.successRows \o FirstOf(rowBuffer, result.success)]_vars

\* A batch of two was reconciled with one success and one error: the first
\* record of the batch, and it alone, is in successRows.
C33_Witness ==
    /\ pc = "idle" /\ endedBy = "complete" /\ state.mode = "import"
    /\ "success" \in resultExport
    /\ Len(calls) = 1 /\ Len(calls[1].batch) = 2
    /\ calls[1].result = [success |-> 1, errors |-> 1]
    /\ rows.successRows = <<calls[1].batch[1]>>

\* C34: within a burst no batch result is reconciled before every sink
\* call of the burst has settled, and the results are then reconciled in
\* buffer order.  While a call of the burst is pending a step reconciles
\* nothing: successCount and totalCount stand still, and a call that settles
\* adds to errorCount only what its own sendBatch adds for its own outcome.
\* The step that reconciles finds every call settled, hands the batches to
\* handleBatchResult in the order they were taken from the buffer, and adds
\* the sums of the results to the counters; what was reconciled is at every
\* moment a prefix of what was sent, in the order sent.  What the burst
\* leaves therefore does not depend on the order the calls completed in.
SentBatches == [i \in 1..Len(sentLog) |-> sentLog[i].batch]

Successes(cs) == SumSeq([i \in 1..Len(cs) |-> cs[i].result.success])

Errors(cs) == SumSeq([i \in 1..Len(cs) |-> cs[i].result.errors])

OneSettles ==
    \E i \in 1..Len(calls) :
        /\ calls[i].st = "pending"
        /\ calls' = [calls EXCEPT ![i] = calls'[i]]
        /\ calls'[i].st = "settled" /\ calls'[i].batch = calls[i].batch
        /\ state' = [state EXCEPT !.errorCount =
                        @ + SendBatch(calls[i].batch, calls'[i].outcome).errorCountAdded]

C34_BurstReconciledTogether ==
    /\ [][(pc = "burst" /\ ~AllSettled(calls)) =>
             /\ reconciled' = reconciled
             /\ state'.successCount = state.successCount
             /\ state'.totalCount = state.totalCount
             /\ calls' # calls => OneSettles]_vars
    /\ [][(pc = "burst" /\ reconciled' # reconciled) =>
             /\ AllSettled(calls)
             /\ reconciled' = reconciled \o [i \in 1..Len(calls) |-> calls[i].batch]
             /\ state'.successCount = state.successCount + Successes(calls)
             /\ state'.errorCount = state.errorCount + Errors(calls)
             /\ state'.totalCount = state.totalCount + Successes(calls) + Errors(calls)]_vars
    /\ [](/\ Len(reconciled) <= Len(sentLog)
          /\ reconciled = SubSeq(SentBatches, 1, Len(reconciled)))

\* The second call of a burst of two has settled with a success while the
\* first is pending: nothing of the burst is reconciled yet.
C34_Witness ==
    /\ pc = "burst" /\ Len(calls) = 2
    /\ calls[1].st = "pending" /\ calls[2].st = "settled"
    /\ calls[2].result.success > 0
    /\ state.successCount = 0
    /\ Len(reconciled) < Len(sentLog)

\* C35: batches are formed in buffer order.  In an import the batches, in
\* the order their sink calls were started and with the tail among them,
\* followed by what is still waiting in the buffer, list the records that
\* passed validation in the order the tokenizer delivered them: the line
\* numbers along the batches are strictly increasing.
IsValidRecord(r) == r.id \in validIds

ValidInOrder ==
    SelectSeq([k \in 1..Len(lineLog) |-> [id |-> k, line |-> lineLog[k]]], IsValidRecord)

Waiting == IF pc \in {"tail", "idle"} THEN <<>> ELSE rowBuffer

LinesOfSentBatches == [i \in 1..Len(Flatten(SentBatches)) |-> Flatten(SentBatches)[i].line]

C35_BatchesInBufferOrder ==
    state.mode = "import" =>
        /\ \A i, j \in 1..Len(LinesOfSentBatches) :
               i < j => LinesOfSentBatches[i] < LinesOfSentBatches[j]
        /\ Flatten(SentBatches) \o Waiting
               = SubSeq(ValidInOrder, 1, Len(Flatten(SentBatches)) + Len(Waiting))
        /\ (pc = "idle" /\ endedBy = "complete") => Flatten(SentBatches) = ValidInOrder

\* An import has completed with two batches sent, one after the other in
\* line order, around a record that was not valid.
C35_Witness ==
    /\ pc = "idle" /\ endedBy = "complete" /\ state.mode = "import"
    /\ Len(sentLog) >= 2
    /\ Len(lineLog) > Len(Flatten(SentBatches))
    /\ LinesOfSentBatches[2] > LinesOfSentBatches[1] + 1

\* C36: memory bound of the dispatch buffer.  Whenever the tokenizer is
\* accepting (not paused, not ended) during an import the buffer holds fewer
\* than chunkSize records; and at every moment, also inside the row loop,
\* it holds fewer than chunkSize plus the size of the chunk under way, which
\* is at most that of the largest chunk (MaxRecords here).
C36_BufferBounded ==
    /\ [](state.mode = "import" =>
             /\ parser = "streaming" => Len(rowBuffer) < config.chunkSize
             /\ Len(rowBuffer) < config.chunkSize + MaxRecords)
    /\ [][(state.mode = "import" /\ Len(lineLog') > Len(lineLog)) =>
             /\ Len(rowBuffer) + Cardinality(validIds' \ validIds)
                    < config.chunkSize + (Len(lineLog') - Len(lineLog))
             /\ Len(lineLog') - Len(lineLog) <= MaxRecords]_vars

\* The tokenizer is accepting again after a chunk of three valid records
\* went through a buffer of chunkSize 2: one record is left waiting.
C36_Witness ==
    /\ state.mode = "import" /\ parser = "streaming" /\ pc = "parsing"
    /\ config.chunkSize = 2
    /\ Len(lineLog) = 3 /\ Cardinality(validIds) = 3
    /\ Len(rowBuffer) = 1 /\ Len(sentLog) = 1

\* C38: conservation at every step of an import session whose sink results
\* are all well formed and account for their batches: totalCount +
\* filteredCount + (records in the dispatch buffer) + (records in batches
\* sent and not yet reconciled) is the number of records consumed from the
\* tokenizer so far, and successCount changes only when a batch result is
\* reconciled (or the session starts).
InSentBatches == Len(Flatten(SentBatches)) - Len(Flatten(reconciled))

SuccessCountByReconciliation ==
    [][(state'.mode = "import" /\ state'.successCount # state.successCount) =>
          reconciled' # reconciled \/ sessions' # sessions]_vars

InBuffer == IF pc = "tail" THEN 0 ELSE Len(rowBuffer)

SevenTypes == {"field", "row", "batch", "file", "import", "error", "metrics"}

WellFormed(plugin) ==
    /\ plugin.name # 0
    /\ plugin.type \in SevenTypes
    /\ plugin.transform # "string"
    /\ plugin.type = "field" => plugin.transform = "function"

NamesIn(plugins) == {plugins[i].name : i \in 1..Len(plugins)}

C28_RegistryNamesUnique ==
    /\ [](/\ \A i, j \in 1..Len(registry) :
                registry[i].name = registry[j].name => i = j
          /\ \A i \in 1..Len(registry) : registry[i].type \in SevenTypes
          /\ (lastCall.op = "use" /\ lastCall.afterRemoval # 0
                 /\ lastCall.plugin.name = lastCall.afterRemoval
                 /\ WellFormed(lastCall.plugin))
             => /\ lastCall.outcome = "registered"
                /\ registry[Len(registry)] = lastCall.plugin)
    /\ [][lastCall'.op = "use" =>
             /\ (~WellFormed(lastCall'.plugin)
                    \/ lastCall'.plugin.name \in NamesIn(registry))
                => lastCall'.outcome = "thrown"
             /\ lastCall'.outcome = "thrown" => registry' = registry
             /\ lastCall'.outcome = "registered"
                => registry' = Append(registry, lastCall'.plugin)]_vars
    /\ [][(lastCall'.op = "removePlugin" /\ lastCall'.outcome = "true")
             => lastCall'.name \notin NamesIn(registry')]_vars

\* A name is registered, a second plugin under it is rejected, the name is
\* removed and registered again beside another one.
C28_Witness ==
    /\ Len(registry) = 2
    /\ lastCall.op = "use" /\ lastCall.outcome = "registered"
    /\ lastCall.afterRemoval = lastCall.plugin.name
    /\ registry[2] = lastCall.plugin

\* ------------------------------------------------------------- properties
Completed == pc = "idle" /\ endedBy = "complete"

SentRecords == Flatten([i \in 1..Len(sentLog) |-> sentLog[i].batch])

Ids(recs) == {recs[i].id : i \in 1..Len(recs)}

\* C1: in every completed session successCount + filteredCount + errorCount
\* equals the number of records the tokenizer delivered to processRows.
C1_CountersSumToRecords ==
    Completed =>
        state.successCount + state.filteredCount + state.errorCount = Len(lineLog)

\* C2: the records handed to the sink are exactly the valid ones, each in
\* one sink call.  At every moment no record has been sent twice and
\* nothing but validated records has been sent; when an import session has
\* completed, every valid record has been sent and the buffer is empty.
C2_SentExactlyTheValidRecords ==
    /\ Cardinality(Ids(SentRecords)) = Len(SentRecords)
    /\ Ids(SentRecords) \subseteq validIds
    /\ (Completed /\ state.mode = "import") =>
            /\ Ids(SentRecords) = validIds
            /\ rowBuffer = <<>>

\* A completed import session that sent several batches and also saw
\* records that were filtered out or invalid.
C2_Witness ==
    /\ Completed /\ state.mode = "import"
    /\ Len(sentLog) >= 2
    /\ Cardinality(validIds) < Len(lineLog)

\* C3: the sink calls started and not yet settled never outnumber
\* config.concurrency.
C3_InFlightAtMostConcurrency == InFlight(calls) <= config.concurrency

\* A burst that uses the whole allowance of a concurrency above 1.
C3_Witness ==
    /\ pc = "burst"
    /\ config.concurrency > 1
    /\ InFlight(calls) = config.concurrency

\* C4: backpressure.  While a chunk is being processed (sink calls of a
\* burst outstanding, an inter-burst delay running, or processRows about to
\* return) the tokenizer is paused, and processRows is entered for a chunk
\* only when no earlier chunk is being processed, pausing the tokenizer in
\* the same step.
C4_PausedWhileProcessing ==
    /\ [](pc \in {"burst", "delay", "resuming"} => parser = "paused")
    /\ [][Len(lineLog') > Len(lineLog) => pc = "parsing" /\ parser' = "paused"]_vars

\* A chunk in the middle of its processing: one sink call of the burst has
\* settled, another has not, and the tokenizer is held.
C4_Witness ==
    /\ pc = "burst"
    /\ parser = "paused"
    /\ \E i, j \in 1..Len(calls) : calls[i].st = "settled" /\ calls[j].st = "pending"

\* C5: every batch the drain loop dispatches has exactly chunkSize records;
\* only the tail may be smaller, and it is non-empty, smaller than
\* chunkSize, the last batch of the session, sent once, after end-of-stream
\* and in import mode only.
C5_BatchSizes ==
    /\ sentLog # <<>> => state.mode = "import"
    /\ \A i \in 1..Len(sentLog) :
          IF sentLog[i].tail
          THEN /\ Len(sentLog[i].batch) > 0
               /\ Len(sentLog[i].batch) < config.chunkSize
               /\ i = Len(sentLog)
               /\ parser = "ended"
          ELSE Len(sentLog[i].batch) = config.chunkSize

\* A session that sent a full batch from the drain loop and then a tail.
C5_Witness ==
    /\ Len(sentLog) >= 2
    /\ sentLog[Len(sentLog)].tail
    /\ ~sentLog[1].tail

\* C6: in check mode the sink is never called, the buffer stays empty, and
\* every record that passed validation has been counted as a success (and
\* in totalCount, which also counts the invalid ones) by the time the row
\* loop has handled it.
C6_CheckModeOnlyCounts ==
    (sessions > 0 /\ state.mode = "check") =>
        /\ rowBuffer = <<>>
        /\ calls = <<>>
        /\ sentLog = <<>>
        /\ state.successCount = Cardinality(validIds)
        /\ state.totalCount = Len(lineLog) - state.filteredCount

\* A running check session with valid records and others.
C6_Witness ==
    /\ state.mode = "check" /\ state.isProcessing
    /\ Cardinality(validIds) >= 2
    /\ Len(lineLog) > Cardinality(validIds)

\* C7: the k-th record of a session gets line number k + 1, whatever its
\* outcome and in whatever chunk it arrives, and the cursor stands one past
\* the last line given, so no line is given twice; this holds in the first
\* session and in every later one.
C7_LineNumbers ==
    /\ \A k \in 1..Len(lineLog) : lineLog[k] = k + 1
    /\ state.isProcessing => state.currentCsvLine = Len(lineLog) + 2

\* A second session on the engine, with records in more than one chunk, one
\* of them filtered and one of them invalid.
C7_Witness ==
    /\ sessions = 2
    /\ Len(lineLog) >= 3
    /\ state.filteredCount >= 1
    /\ state.errorCount >= 1
    /\ Cardinality(validIds) >= 1

\* C8: a batch whose sink call threw is reconciled as 0 successes and one
\* error per record, and errorCount and totalCount grow by the batch length
\* once: not when sendBatch handles the fault, only when the result is
\* reconciled.
C8_ThrownBatchCountedOnce ==
    [][/\ (\E i \in 1..Len(calls) :
              /\ pc \in {"burst", "tail"} /\ Len(calls') = Len(calls)
              /\ calls[i].st = "pending" /\ calls'[i].st = "settled"
              /\ Thrown(calls'[i].outcome))
          => /\ state'.errorCount = state.errorCount
             /\ state'.totalCount = state.totalCount
       /\ (pc \in {"burst", "tail"} /\ calls # <<>> /\ AllSettled(calls) /\ calls' # calls)
          => /\ \A i \in 1..Len(calls) :
                    Thrown(calls[i].outcome) =>
                        calls[i].result = [success |-> 0, errors |-> Len(calls[i].batch)]
             /\ state'.errorCount - state.errorCount
                    = SumSeq([i \in 1..Len(calls) |-> calls[i].result.errors])
             /\ state'.totalCount - state.totalCount
                    = SumSeq([i \in 1..Len(calls) |->
                                  calls[i].result.success + calls[i].result.errors])]_vars

\* C9: a malformed sink result (not an object, success not a number, errors
\* not a list) is replaced by success 0 and one error per record of the batch.
C9_MalformedResultBecomesAllErrors ==
    \A i \in 1..Len(calls) :
        (calls[i].st = "settled" /\ Malformed(calls[i].outcome)) =>
            calls[i].result = [success |-> 0, errors |-> Len(calls[i].batch)]

====
